---- MODULE Spec2Model ----
(***************************************************************************)
(* Model of the hierarchical configuration diff engine of                  *)
(* check_cisco_nxos_config_diff_check.py: ConfigDiffer.parse,              *)
(* ConfigDiffer.compare and DiffRenderer._build_tree.                      *)
(*                                                                         *)
(* A Python str is a sequence of one-character strings.  A similarity      *)
(* score is an exact rational kept as an integer multiple of 1/One; for    *)
(* lines of at most five tokens every comparison the code makes on its     *)
(* floats (>, >=, <, ==) agrees with the comparison of the exact values.   *)
(***************************************************************************)
EXTENDS Integers, Sequences, FiniteSets, TLC

(***************************************************************************)
(* Characters and the str methods the code uses.                           *)
(***************************************************************************)
NL == "\n"
DELIM == "|"
Whitespace == {" ", "\t"}

RECURSIVE lstrip(_, _)
lstrip(s, chars) ==
  IF s # <<>> /\ Head(s) \in chars THEN lstrip(Tail(s), chars) ELSE s

RECURSIVE rstrip(_, _)
rstrip(s, chars) ==
  IF s # <<>> /\ s[Len(s)] \in chars
  THEN rstrip(SubSeq(s, 1, Len(s) - 1), chars)
  ELSE s

strip(s) == rstrip(lstrip(s, Whitespace), Whitespace)

\* str.splitlines(): pieces between line breaks, no piece after a final break.
RECURSIVE splitlines_from(_, _, _)
splitlines_from(s, i, cur) ==
  IF i > Len(s) THEN (IF cur = <<>> THEN <<>> ELSE <<cur>>)
  ELSE IF \E j \in i..Len(s) : s[j] = NL
  THEN <<cur \o SubSeq(s, i, (CHOOSE j \in i..Len(s) : s[j] = NL /\ \A k \in i..(j - 1) : s[k] # NL) - 1)>>
         \o splitlines_from(s, (CHOOSE j \in i..Len(s) : s[j] = NL /\ \A k \in i..(j - 1) : s[k] # NL) + 1, <<>>)
  ELSE <<cur \o SubSeq(s, i, Len(s))>>

splitlines(s) == splitlines_from(s, 1, <<>>)

\* str.split(): the maximal runs of non-whitespace characters.
RECURSIVE split_from(_, _, _)
split_from(s, i, cur) ==
  IF i > Len(s) THEN (IF cur = <<>> THEN <<>> ELSE <<cur>>)
  ELSE IF s[i] \in Whitespace
       THEN (IF cur = <<>> THEN <<>> ELSE <<cur>>) \o split_from(s, i + 1, <<>>)
       ELSE split_from(s, i + 1, Append(cur, s[i]))

split(s) == split_from(s, 1, <<>>)

\* sep.join(parts)
RECURSIVE join(_, _)
join(parts, sep) ==
  IF parts = <<>> THEN <<>>
  ELSE IF Len(parts) = 1 THEN parts[1]
  ELSE parts[1] \o <<sep>> \o join(Tail(parts), sep)

\* s.split(sep): the pieces between separators (one piece when there is none).
RECURSIVE split_on_from(_, _, _, _)
split_on_from(s, sep, i, cur) ==
  IF i > Len(s) THEN <<cur>>
  ELSE IF s[i] = sep THEN <<cur>> \o split_on_from(s, sep, i + 1, <<>>)
  ELSE split_on_from(s, sep, i + 1, Append(cur, s[i]))

split_on(s, sep) == split_on_from(s, sep, 1, <<>>)

SeqToSet(s) == {s[i] : i \in 1..Len(s)}

Max2(a, b) == IF a >= b THEN a ELSE b
Min2(a, b) == IF a <= b THEN a ELSE b
Abs(a) == IF a < 0 THEN -a ELSE a

(***************************************************************************)
(* ConfigDiffer.parse                                                      *)
(***************************************************************************)
indent(line) == Len(line) - Len(lstrip(line, {" "}))

\* A variant of pop_stack that keeps a sibling on the stack: it pops only the
\* entries of a greater indent.
RECURSIVE pop_stack_deeper(_, _)
pop_stack_deeper(path_stack, indent_level) == IF path_stack # <<>> /\ path_stack[Len(path_stack)][1] > indent_level THEN pop_stack_deeper(SubSeq(path_stack, 1, Len(path_stack) - 1), indent_level) ELSE path_stack

\* while path_stack and path_stack[-1][0] >= indent_level: path_stack.pop()
RECURSIVE pop_stack(_, _)
pop_stack(path_stack, indent_level) ==
  IF path_stack # <<>> /\ path_stack[Len(path_stack)][1] >= indent_level
  THEN pop_stack(SubSeq(path_stack, 1, Len(path_stack) - 1), indent_level)
  ELSE path_stack

\* A variant of lookahead that accepts a deeper line anywhere below.
lookahead_any_deeper(lines, j, indent_level) == \E h \in j..Len(lines) : strip(lines[h]) # <<>> /\ indent(lines[h]) > indent_level

\* A variant of lookahead that looks at the next line only, blank or not.
lookahead_next_line(lines, j, indent_level) == j <= Len(lines) /\ strip(lines[j]) # <<>> /\ indent(lines[j]) > indent_level

\* The forward scan for the next non-blank line, from line j on.
RECURSIVE lookahead(_, _, _)
lookahead(lines, j, indent_level) ==
  IF j > Len(lines) THEN FALSE
  ELSE IF strip(lines[j]) # <<>> THEN indent(lines[j]) > indent_level
  ELSE lookahead(lines, j + 1, indent_level)

RECURSIVE parse_loop(_, _, _, _)
parse_loop(lines, i, result, path_stack) ==
  IF i > Len(lines) THEN result
  ELSE
    LET line == lines[i]
        stripped_line == strip(line)
    IN
    IF stripped_line = <<>> THEN parse_loop(lines, i + 1, result, path_stack)
    ELSE
      LET indent_level == indent(line)
          stack == pop_stack(path_stack, indent_level)
          current_path == join([k \in 1..Len(stack) |-> stack[k][2]], DELIM)
          rec == [string |-> stripped_line,
                  path |-> current_path,
                  is_parent |-> lookahead(lines, i + 1, indent_level)]
      IN parse_loop(lines, i + 1, Append(result, rec),
                    Append(stack, <<indent_level, stripped_line>>))

parse(cfg) == parse_loop(splitlines(cfg), 1, <<>>, <<>>)

(***************************************************************************)
(* The similarity primitives nested in ConfigDiffer.compare.  Unit is the  *)
(* value 1.0 of a ratio and One the value 1.0 of a score: a score is       *)
(* 7 * prefix + 3 * jaccard in tenths, so One = 10 * Unit.  Unit is a      *)
(* multiple of every denominator up to 10, which keeps the divisions exact *)
(* for lines of at most five tokens.                                       *)
(***************************************************************************)
Unit == 8 * 9 * 5 * 7
One == 10 * Unit

PrefixWeight == 7
TokenWeight == 3
ThresholdTenths == 6
MaxTokenGap == 4

Threshold == ThresholdTenths * Unit
NoCandidate == -One
AddedScore == -2 * One

\* for at, bt in zip(a_tokens, b_tokens): count the leading equal pairs
RECURSIVE match_len(_, _)
match_len(a_tokens, b_tokens) ==
  IF a_tokens # <<>> /\ b_tokens # <<>> /\ Head(a_tokens) = Head(b_tokens)
  THEN 1 + match_len(Tail(a_tokens), Tail(b_tokens))
  ELSE 0

left_prefix_similarity(a, b) ==
  LET a_tokens == split(a)
      b_tokens == split(b)
      max_len == Max2(Len(a_tokens), Len(b_tokens))
  IN IF max_len = 0 THEN 0
     ELSE (Unit * match_len(a_tokens, b_tokens)) \div max_len

token_jaccard(a, b) ==
  LET a_set == SeqToSet(split(a))
      b_set == SeqToSet(split(b))
  IN IF a_set = {} /\ b_set = {} THEN Unit
     ELSE (Unit * Cardinality(a_set \cap b_set)) \div Cardinality(a_set \cup b_set)

\* Variant: the weights of the two scores are exchanged.
cisco_similarity_token_bias(a, b) ==
  LET a_tokens == split(a)
      b_tokens == split(b)
  IN IF a_tokens = <<>> \/ b_tokens = <<>> \/ a_tokens[1] # b_tokens[1] THEN 0
     ELSE IF Abs(Len(a_tokens) - Len(b_tokens)) > MaxTokenGap THEN 0
     ELSE TokenWeight * left_prefix_similarity(a, b)
          + PrefixWeight * token_jaccard(a, b)

\* Variant: the difference of the token counts is not looked at.
cisco_similarity_any_length(a, b) == IF split(a) = <<>> \/ split(b) = <<>> \/ split(a)[1] # split(b)[1] THEN 0 ELSE PrefixWeight * left_prefix_similarity(a, b) + TokenWeight * token_jaccard(a, b)

cisco_similarity(a, b) ==
  LET a_tokens == split(a)
      b_tokens == split(b)
  IN IF a_tokens = <<>> \/ b_tokens = <<>> \/ a_tokens[1] # b_tokens[1] THEN 0
     ELSE IF Abs(Len(a_tokens) - Len(b_tokens)) > MaxTokenGap THEN 0
     ELSE PrefixWeight * left_prefix_similarity(a, b)
          + TokenWeight * token_jaccard(a, b)

(***************************************************************************)
(* Bounds of the explored inputs.                                          *)
(***************************************************************************)
MaxBaseLines == 3
MaxTargetLines == 2
MaxSelfLines == 4
MaxAgainLines == 2
MaxRuns == 2

\* The raw lines a configuration text is made of: a header, indented
\* children that are equal up to inner whitespace or similar above and
\* below the threshold, and a deeper line.
RawLines ==
  { <<"a">>,
    <<" ", "a", " ", "b">>,
    <<" ", "a", " ", " ", "b">>,
    <<" ", "a", " ", "b", " ", "c">>,
    <<" ", " ", "a">> }

\* The texts of at most n lines drawn from raw.
TextsOver(raw, n) ==
  {join(lines, NL) : lines \in UNION {[1..k -> raw] : k \in 0..n}}

Texts(n) == TextsOver(RawLines, n)

\* The raw lines of the texts that are compared again and again.
AgainLines == RawLines \ { <<" ", "a", " ", "b", " ", "c">> }

(***************************************************************************)
(* State.  target_cfg .. results are the fields of ConfigDiffer,           *)
(* path_scores and tree those of DiffRenderer.  A parsed line (a dict) is  *)
(* referred to by its position in target_parsed; ids[j] is id() of the     *)
(* j-th target dict.  source[k] records, for results[k], the target line   *)
(* held by the local best_match / target_item when it was written (0 for   *)
(* none).  prev holds the structures the previous invocation produced.     *)
(***************************************************************************)
VARIABLES target_cfg, base_cfg, target_parsed, base_parsed, ids,
          used_target_lines, results, source, path_scores, tree,
          pc, run, prev

\* The check object and what surrounds it.  check is the class of the
\* object, REQUESTS and RESULTS its two protocol fields, cdp_data the field
\* CDPInterfaceDescriptionComplianceCheck keeps between its handlers.
\* TEMPLATE_MAP is the module's registry and files the readable files by
\* path.  output is the text the last handler call received, calls the
\* number of handler calls made, raised the exception a handler call let
\* escape ("" for none), and stats the counts handle_initial takes from the
\* rendered page.  failing is the step of handle_initial that the
\* surroundings make raise ("" for none).
VARIABLES check, REQUESTS, RESULTS, cdp_data, TEMPLATE_MAP, files, failing,
          output, calls, raised, stats

checkvars == <<check, REQUESTS, RESULTS, cdp_data, TEMPLATE_MAP, files, failing,
               output, calls, raised, stats>>

vars == <<target_cfg, base_cfg, target_parsed, base_parsed, ids,
          used_target_lines, results, source, path_scores, tree,
          pc, run, prev, checkvars>>

\* Variant: two objects alive together may get the same id.
AllocIdsReused(n) == [1..n -> 1..n]

\* id() of n objects alive together: pairwise different, otherwise arbitrary.
AllocIds(n) == {f \in [1..n -> 1..n] : \A i, j \in 1..n : f[i] = f[j] => i = j}

\* The one assignment that numbers the objects in the order of their
\* creation.  An id is only ever tested for membership in used_target_lines,
\* so it stands for the identity of the object; C9 checks that any other
\* assignment of AllocIds gives the same output.
CreationIds(n) == {[j \in 1..n |-> j]}

ROOT_ITEMS == <<"root_items">>
EmptyNode == [keys |-> <<>>, root_items |-> <<>>]
EmptyTree == (<<>> :> EmptyNode)
EmptyMap == [x \in {} |-> 0]

(***************************************************************************)
(* ConfigDiffer.compare, main logic                                        *)
(***************************************************************************)
\* Variant: the pool is not narrowed to the lines still unused.
candidates_ignoring_used(tp, idf, used, base_path) ==
  SelectSeq([j \in 1..Len(tp) |-> j], LAMBDA j : tp[j].path = base_path)

\* Variant: the pool is not narrowed to the base line's path.
candidates_any_path(tp, idf, used, base_path) ==
  SelectSeq([j \in 1..Len(tp) |-> j], LAMBDA j : idf[j] \notin used)

\* candidates = [item for item in target_parsed.values()
\*               if item["path"] == base_path and id(item) not in used]
candidates(tp, idf, used, base_path) ==
  SelectSeq([j \in 1..Len(tp) |-> j],
            LAMBDA j : tp[j].path = base_path /\ idf[j] \notin used)

\* Variant: a later candidate of equal score replaces the earlier one.
better_or_equal(score, best_score) == score >= best_score

\* Variant: the first candidate that reaches the threshold is kept.
better_until_accepted(score, best_score) ==
  best_score < Threshold /\ score > best_score

\* if score > best_score: best_match, best_score = candidate, score
better(score, best_score) == score > best_score

\* Variant: parent lines are scored by similarity like any other line.
RECURSIVE scan_by_similarity(_, _, _, _, _, _)
scan_by_similarity(tp, base_string, base_is_parent, cands, best_match, best_score) ==
  IF cands = <<>> THEN <<best_match, best_score>>
  ELSE
    LET candidate == Head(cands)
        score == cisco_similarity(base_string, tp[candidate].string)
    IN IF score > best_score
       THEN scan_by_similarity(tp, base_string, base_is_parent,
                               Tail(cands), candidate, score)
       ELSE scan_by_similarity(tp, base_string, base_is_parent,
                               Tail(cands), best_match, best_score)

\* for candidate in candidates: ...   (the result is <<best_match, best_score>>)
RECURSIVE scan_candidates(_, _, _, _, _, _)
scan_candidates(tp, base_string, base_is_parent, cands, best_match, best_score) ==
  IF cands = <<>> THEN <<best_match, best_score>>
  ELSE
    LET candidate == Head(cands)
        target_string == tp[candidate].string
    IN
    IF base_is_parent
    THEN IF base_string = target_string
         THEN <<candidate, One>>
         ELSE scan_candidates(tp, base_string, base_is_parent, Tail(cands),
                              best_match, best_score)
    ELSE LET score == cisco_similarity(base_string, target_string) IN
         IF better(score, best_score)
         THEN scan_candidates(tp, base_string, base_is_parent, Tail(cands),
                              candidate, score)
         ELSE scan_candidates(tp, base_string, base_is_parent, Tail(cands),
                              best_match, best_score)

\* Variant: any best candidate is accepted, whatever its score.
accepted_any(best_match, best_score) == best_match # 0

\* is_matched = best_match is not None and best_score >= 0.6
accepted(best_match, best_score) == best_match # 0 /\ best_score >= Threshold

\* Variant: the tail runs to the sum of the two lengths.
diff_positions_to_sum(a, b) ==
  LET min_len == Min2(Len(a), Len(b)) IN
  SelectSeq([i \in 1..min_len |-> i - 1], LAMBDA i : a[i + 1] # b[i + 1])
  \o [i \in 1..(Len(a) + Len(b) - min_len) |-> min_len + i - 1]

\* Variant: only the positions both texts have are looked at.
diff_positions_common_only(a, b) == SelectSeq([i \in 1..Min2(Len(a), Len(b)) |-> i - 1], LAMBDA i : a[i + 1] # b[i + 1])

\* [i for i in range(min_len) if a[i] != b[i]] + list(range(min_len, max(len(a), len(b))))
diff_positions_of(a, b) ==
  LET min_len == Min2(Len(a), Len(b))
      max_len == Max2(Len(a), Len(b))
  IN SelectSeq([i \in 1..min_len |-> i - 1], LAMBDA i : a[i + 1] # b[i + 1])
     \o [i \in 1..(max_len - min_len) |-> min_len + i - 1]

\* Variant: the positions are counted from 1.
all_positions_from_one(s) == [i \in 1..Len(s) |-> i]

\* list(range(len(s)))
all_positions(s) == [i \in 1..Len(s) |-> i - 1]

\* One pass of the loop over base_parsed: <<record, best_match or 0>>.
match_line(tp, idf, used, base_item) ==
  LET best == scan_candidates(tp, base_item.string, base_item.is_parent,
                              candidates(tp, idf, used, base_item.path),
                              0, NoCandidate)
      best_match == best[1]
      best_score == best[2]
      is_matched == accepted(best_match, best_score)
      rec == [string |-> base_item.string,
              best_match |-> IF is_matched THEN tp[best_match].string ELSE <<>>,
              is_parent |-> base_item.is_parent,
              similarity_score |-> best_score,
              is_matched |-> is_matched,
              diff_positions |->
                IF is_matched
                THEN diff_positions_of(base_item.string, tp[best_match].string)
                ELSE all_positions(base_item.string),
              path |-> base_item.path,
              is_added |-> FALSE]
  IN <<rec, IF is_matched THEN best_match ELSE 0>>

added_record(target_item) ==
  [string |-> target_item.string,
   best_match |-> <<>>,
   is_parent |-> target_item.is_parent,
   similarity_score |-> AddedScore,
   is_matched |-> FALSE,
   diff_positions |-> all_positions(target_item.string),
   path |-> target_item.path,
   is_added |-> TRUE]

\* The target lines the second loop of compare turns into added records.
unused_targets(tp, idf, used) ==
  SelectSeq([j \in 1..Len(tp) |-> j], LAMBDA j : idf[j] \notin used)

\* What one pass of the loop leaves behind: the record under its line
\* number, and id(best_match) in used_target_lines when it matched.
after_pass(acc, idf, out) ==
  [results |-> Append(acc.results, out[1]),
   source |-> Append(acc.source, out[2]),
   used |-> IF out[2] # 0 THEN acc.used \cup {idf[out[2]]} ELSE acc.used]

\* for line_num, base_item in self.base_parsed.items(): ...
RECURSIVE compare_loop(_, _, _, _, _)
compare_loop(tp, bp, idf, line_num, acc) ==
  IF line_num > Len(bp) THEN acc
  ELSE compare_loop(tp, bp, idf, line_num + 1,
                    after_pass(acc, idf,
                               match_line(tp, idf, acc.used, bp[line_num])))

\* for target_item in self.target_parsed.values(): ...   (the added records)
add_lines(tp, acc, rest) ==
  [results |-> acc.results \o [i \in 1..Len(rest) |-> added_record(tp[rest[i]])],
   source |-> acc.source \o rest,
   used |-> acc.used]

\* The target lines the second loop finds unused after the first.
add_unused(tp, idf, acc) == add_lines(tp, acc, unused_targets(tp, idf, acc.used))

\* The main logic of compare(): both loops, from an empty used_target_lines.
compare_all(tp, bp, idf) ==
  add_unused(tp, idf,
             compare_loop(tp, bp, idf, 1,
                          [results |-> <<>>, source |-> <<>>, used |-> {}]))

(***************************************************************************)
(* DiffRenderer._build_tree.  The tree (nested dicts) is a function from   *)
(* the key path of a node to the node: keys is the insertion order of the  *)
(* node's keys (child segments and ROOT_ITEMS), root_items the list under  *)
(* the key "root_items", holding the keys in results of the records it     *)
(* refers to.  A header whose text is literally root_items would collide   *)
(* with that key; no line of the explored alphabet spells it.              *)
(***************************************************************************)
has_key(t, node, key) == key \in SeqToSet(t[node].keys)

\* node.setdefault(part, {})
set_default(t, node, part) ==
  IF has_key(t, node, part) THEN t
  ELSE [t EXCEPT ![node].keys = Append(@, part)]
       @@ (Append(node, part) :> EmptyNode)

\* for part in item["path"].split(DELIM): node = node.setdefault(part, {})
RECURSIVE descend(_, _, _)
descend(t, node, parts) ==
  IF parts = <<>> THEN <<t, node>>
  ELSE descend(set_default(t, node, Head(parts)), Append(node, Head(parts)),
               Tail(parts))

\* node.setdefault("root_items", []).append(item)
append_item(t, node, k) ==
  [t EXCEPT ![node] =
     [keys |-> IF ROOT_ITEMS \in SeqToSet(@.keys) THEN @.keys
               ELSE Append(@.keys, ROOT_ITEMS),
      root_items |-> Append(@.root_items, k)]]

\* Variant: only a removed parent header is left out of its node's list.
is_listed_unless_removed(item) ==
  ~(item.is_parent /\ ~item.is_matched /\ ~item.is_added)

\* if not (item["is_parent"] and not item["is_matched"])
is_listed(item) == ~(item.is_parent /\ ~item.is_matched)

\* path = [item['path'], item['string']] if item['path'] else [item['string']]
score_key(item) ==
  IF item.path # <<>> THEN join(<<item.path, item.string>>, DELIM)
  ELSE join(<<item.string>>, DELIM)

put(m, key, val) ==
  IF key \in DOMAIN m THEN [m EXCEPT ![key] = val] ELSE m @@ (key :> val)

\* Variant: the path is used as one key instead of being split at DELIM.
item_node_unsplit(t, item) ==
  IF item.path # <<>> THEN descend(t, <<>>, <<item.path>>)
  ELSE <<t, <<>>>>

\* The node an item belongs to, creating the nodes on the way.
item_node(t, item) ==
  IF item.path # <<>> THEN descend(t, <<>>, split_on(item.path, DELIM))
  ELSE <<t, <<>>>>

\* for item in self.differ.results.values(): ...   (<<tree, path_scores>>)
RECURSIVE build_tree_loop(_, _, _, _)
build_tree_loop(res, k, t, ps) ==
  IF k > Len(res) THEN <<t, ps>>
  ELSE
    LET item == res[k]
        at == item_node(t, item)
        t2 == IF is_listed(item) THEN append_item(at[1], at[2], k) ELSE at[1]
    IN build_tree_loop(res, k + 1, t2,
                       put(ps, score_key(item), item.similarity_score))

(***************************************************************************)
(* DiffRenderer._render_item: the class an item is rendered with ("" for a *)
(* matched parent header, which is rendered as nothing).                   *)
(***************************************************************************)
render_class(item) ==
  IF item.is_added THEN "is-added"
  ELSE IF ~item.is_matched THEN "is-removed"
  ELSE IF item.similarity_score < One THEN "is-changed"
  ELSE IF item.is_parent THEN ""
  ELSE "is-unchanged"

(***************************************************************************)
(* DiffRenderer._get_section_state: the state of a card, "" for None.      *)
(* items is the list under the subtree's key "root_items" (empty when the  *)
(* key is missing); a score of -1.0 is looked up as removed and one of     *)
(* -2.0 as added.                                                          *)
(***************************************************************************)
_get_section_state(ps, res, items) ==
  IF items = <<>> THEN ""
  ELSE LET key == res[items[1]].path IN
       IF key \notin DOMAIN ps THEN ""
       ELSE IF ps[key] = NoCandidate THEN "removed"
       ELSE IF ps[key] = AddedScore THEN "added"
       ELSE ""

(***************************************************************************)
(* The check protocol.  REQUESTS is a dict, kept as the set of its         *)
(* <<key, value>> pairs (the device is left out); RESULTS is a dict of     *)
(* status, observation and comments.  A formatted message is the sequence  *)
(* of its pieces.                                                          *)
(***************************************************************************)
NoRequests == {}
Request(command, handler) == {<<"command", command>>, <<"handler", handler>>}
NewResults == [status |-> 0, observation |-> <<>>, comments |-> <<>>]
NoStats == [unchanged |-> 0, changed |-> 0, added |-> 0, removed |-> 0]

(***************************************************************************)
(* ConfigAuditDiffCheck.                                                   *)
(***************************************************************************)
template_name == "nexus_ref"
PartialPercent == 80

\* Variant: the registry is not checked; a missing template only shows when
\* the file is opened.
load_template_unchecked(tmap, fs) ==
  IF template_name \notin DOMAIN tmap
  THEN [raises |-> TRUE,
        description |-> <<"expected str, bytes or os.PathLike object, not NoneType">>]
  ELSE IF tmap[template_name] \notin DOMAIN fs
  THEN [raises |-> TRUE,
        description |-> <<"[Errno 2] No such file or directory: '",
                          tmap[template_name], "'">>]
  ELSE [raises |-> FALSE,
        base_cfg |-> fs[tmap[template_name]],
        template_path |-> tmap[template_name]]

\* load_template(): the text and path of the template, or the exception
load_template(tmap, fs) ==
  IF template_name \notin DOMAIN tmap \/ tmap[template_name] = ""
  THEN [raises |-> TRUE,
        description |-> <<"Template '", template_name,
                          "' not found in TEMPLATE_MAP.">>]
  ELSE IF tmap[template_name] \notin DOMAIN fs
  THEN [raises |-> TRUE,
        description |-> <<"[Errno 2] No such file or directory: '",
                          tmap[template_name], "'">>]
  ELSE [raises |-> FALSE,
        base_cfg |-> fs[tmap[template_name]],
        template_path |-> tmap[template_name]]

\* The items of the page: render() walks every record list of the tree.
rendered_places(t) ==
  UNION {{<<node, i>> : i \in 1..Len(t[node].root_items)} : node \in DOMAIN t}

\* len(re.findall(r'class="item\s+<cls>"', renderer.html))
count_items(res, t, cls) ==
  Cardinality({p \in rendered_places(t) :
                 render_class(res[t[p[1]].root_items[p[2]]]) = cls})

page_stats(res, t) ==
  [unchanged |-> count_items(res, t, "is-unchanged"),
   changed |-> count_items(res, t, "is-changed"),
   added |-> count_items(res, t, "is-added"),
   removed |-> count_items(res, t, "is-removed")]

\* round(num / den): the nearest integer, a tie going to the even one
round_div(num, den) ==
  LET q == num \div den
      r == num % den
  IN IF 2 * r < den THEN q
     ELSE IF 2 * r > den THEN q + 1
     ELSE IF q % 2 = 0 THEN q ELSE q + 1

baseline_total(s) == s.unchanged + s.changed + s.removed

match_percent(s) ==
  IF baseline_total(s) # 0 THEN round_div(100 * s.unchanged, baseline_total(s))
  ELSE 100

\* Variant: the percentage is taken among all the lines, added ones too.
audit_results_with_added(s) ==
  IF s.changed = 0 /\ s.removed = 0 THEN <<"COMPLIANT", 1>>
  ELSE IF round_div(100 * s.unchanged, baseline_total(s) + s.added) >= PartialPercent
       THEN <<"PARTIALLY COMPLIANT", 4>>
  ELSE <<"NON-COMPLIANT", 3>>

audit_results(s) ==
  IF s.changed = 0 /\ s.removed = 0 THEN <<"COMPLIANT", 1>>
  ELSE IF match_percent(s) >= PartialPercent THEN <<"PARTIALLY COMPLIANT", 4>>
  ELSE <<"NON-COMPLIANT", 3>>

\* RESULTS after the try block went through
reported(s, template_path) ==
  [status |-> audit_results(s)[2],
   observation |-> <<audit_results(s)[1], " - Match ",
                     ToString(match_percent(s)), "% (",
                     ToString(s.unchanged), " unchanged, ",
                     ToString(s.changed), " changed, ",
                     ToString(s.removed), " removed, ",
                     ToString(s.added), " added)">>,
   comments |-> <<"Comparing against template: " \o template_path,
                  "View Comparision">>]

\* Variant: the failure is only noted in the comments.
failed_quietly(res, description) ==
  [res EXCEPT !.comments = Append(@, "An error occurred while performing the configuration diff check.")]

\* RESULTS after except Exception as e, description being str(e)
failed(res, description) ==
  [status |-> 5,
   observation |-> <<"Error during configuration diff check: ">> \o description,
   comments |-> Append(res.comments,
                       "An error occurred while performing the configuration diff check.")]

(***************************************************************************)
(* The state machine: one invocation is construction, compare() and        *)
(* _build_tree(); a further invocation constructs fresh objects on the     *)
(* same two texts.                                                         *)
(***************************************************************************)
NoOutput == [results |-> <<>>, tree |-> EmptyTree, path_scores |-> EmptyMap]

\* ConfigDiffer.__init__ and DiffRenderer.__init__
Constructed ==
  /\ target_parsed = <<>>
  /\ base_parsed = <<>>
  /\ ids = <<>>
  /\ used_target_lines = {}
  /\ results = <<>>
  /\ source = <<>>
  /\ path_scores = EmptyMap
  /\ tree = EmptyTree
  /\ pc = "new"

\* The differ and the renderer on their own: no check object is at work.
Standalone ==
  /\ check = ""
  /\ REQUESTS = NoRequests
  /\ RESULTS = NewResults
  /\ cdp_data = <<>>
  /\ TEMPLATE_MAP = EmptyMap
  /\ files = EmptyMap
  /\ failing = ""
  /\ output = <<>>
  /\ calls = 0
  /\ raised = ""
  /\ stats = NoStats

Init ==
  /\ base_cfg \in Texts(MaxBaseLines)
  /\ target_cfg \in Texts(MaxTargetLines)
  /\ Constructed
  /\ Standalone
  /\ run = 1
  /\ prev = NoOutput

\* The fields compare() assigns.
Compared_(tp, bp, idf, out) ==
  /\ target_parsed' = tp
  /\ base_parsed' = bp
  /\ ids' = idf
  /\ used_target_lines' = out.used
  /\ results' = out.results
  /\ source' = out.source

Assign(tp, bp, idf) == Compared_(tp, bp, idf, compare_all(tp, bp, idf))

\* ConfigDiffer.compare(), the target dicts getting the ids idf
CompareWith(idf) ==
  /\ pc = "new"
  /\ Assign(parse(target_cfg), parse(base_cfg), idf)
  /\ pc' = "compared"
  /\ UNCHANGED <<target_cfg, base_cfg, path_scores, tree, run, prev, checkvars>>

Compare ==
  \E idf \in CreationIds(Len(parse(target_cfg))) : CompareWith(idf)

CompareAnyIds ==
  \E idf \in AllocIds(Len(parse(target_cfg))) : CompareWith(idf)

\* DiffRenderer._build_tree()
BuildTree ==
  /\ pc = "compared"
  /\ LET out == build_tree_loop(results, 1, tree, path_scores) IN
       /\ tree' = out[1]
       /\ path_scores' = out[2]
  /\ pc' = "built"
  /\ UNCHANGED <<target_cfg, base_cfg, target_parsed, base_parsed, ids,
                 used_target_lines, results, source, run, prev, checkvars>>

Next == Compare \/ BuildTree

Spec == Init /\ [][Next]_vars

\* A configuration diffed against an identical copy of itself.
InitSelf ==
  /\ base_cfg \in Texts(MaxSelfLines)
  /\ target_cfg = base_cfg
  /\ Constructed
  /\ Standalone
  /\ run = 1
  /\ prev = NoOutput

SpecSelf == InitSelf /\ [][Next]_vars

\* handle_initial once more on the same texts: a new ConfigDiffer and a new
\* DiffRenderer; what the finished invocation produced is kept in prev.
NewInvocation ==
  /\ pc = "built"
  /\ run < MaxRuns
  /\ prev' = [results |-> results, tree |-> tree, path_scores |-> path_scores]
  /\ run' = run + 1
  /\ target_parsed' = <<>>
  /\ base_parsed' = <<>>
  /\ ids' = <<>>
  /\ used_target_lines' = {}
  /\ results' = <<>>
  /\ source' = <<>>
  /\ path_scores' = EmptyMap
  /\ tree' = EmptyTree
  /\ pc' = "new"
  /\ UNCHANGED <<target_cfg, base_cfg, checkvars>>

\* Repeated invocations, the objects of each getting any ids.
InitAgain ==
  /\ base_cfg \in TextsOver(AgainLines, MaxAgainLines)
  /\ target_cfg \in TextsOver(AgainLines, MaxAgainLines)
  /\ Constructed
  /\ Standalone
  /\ run = 1
  /\ prev = NoOutput

NextAgain == CompareAnyIds \/ BuildTree \/ NewInvocation

SpecAgain == InitAgain /\ [][NextAgain]_vars

(***************************************************************************)
(* render() and compare() called again on the same objects.  render()      *)
(* builds into the tree the renderer already holds; the record list of the *)
(* root, which render() pops once the tree is built, is kept in tree as    *)
(* what the page shows in its global section, and is popped when render()  *)
(* is called again.                                                        *)
(***************************************************************************)
\* global_items = self.tree.pop("root_items", [])
pop_root_items(t) ==
  [t EXCEPT ![<<>>] = [keys |-> SelectSeq(@.keys, LAMBDA key : key # ROOT_ITEMS),
                       root_items |-> <<>>]]

\* renderer.render() once more on the same DiffRenderer
RenderAgain ==
  /\ pc = "built"
  /\ run < MaxRuns
  /\ LET out == build_tree_loop(results, 1, pop_root_items(tree), path_scores) IN
       /\ tree' = out[1]
       /\ path_scores' = out[2]
  /\ prev' = [results |-> results, tree |-> tree, path_scores |-> path_scores]
  /\ run' = run + 1
  /\ UNCHANGED <<target_cfg, base_cfg, target_parsed, base_parsed, ids,
                 used_target_lines, results, source, pc, checkvars>>

\* differ.compare() once more on the same ConfigDiffer
CompareAgain ==
  /\ pc = "built"
  /\ run < MaxRuns
  /\ \E idf \in CreationIds(Len(parse(target_cfg))) :
       Assign(parse(target_cfg), parse(base_cfg), idf)
  /\ prev' = [results |-> results, tree |-> tree, path_scores |-> path_scores]
  /\ run' = run + 1
  /\ UNCHANGED <<target_cfg, base_cfg, path_scores, tree, pc, checkvars>>

NextRepeat == Compare \/ BuildTree \/ RenderAgain \/ CompareAgain

SpecRepeat == InitAgain /\ [][NextRepeat]_vars

(***************************************************************************)
(* The checks as the dispatcher drives them: an object of one class is     *)
(* created and, while REQUESTS is not empty, the handler it names is       *)
(* called with the output of the command.                                  *)
(***************************************************************************)
MaxAuditBaseLines == 3
MaxAuditTargetLines == 2

\* The raw lines of the audited texts: a header, a child and a longer child.
AuditLines == { <<"a">>, <<" ", "a", " ", "b">>, <<" ", "a", " ", "b", " ", "c">> }

\* What TEMPLATE_MAP may hold: nothing, an empty path, or the path of a file.
Registries == {EmptyMap, (template_name :> ""), (template_name :> "ref.cfg")}

\* The files that can be read: none, or the template.
FileSystems ==
  {EmptyMap} \cup
  {("ref.cfg" :> text) : text \in TextsOver(AuditLines, MaxAuditBaseLines)}

\* The step of handle_initial, past load_template(), that can be made to
\* raise: the template engine or the writing of the page ("" for none).
Faults == {"", "render", "save"}
fault_description(fault) == <<"cannot ", fault>>

\* The fields of the differ and the renderer once render() has built the tree.
Rendered_(out, base, tp, bp, idf, cmp, built) ==
  /\ target_cfg' = out
  /\ base_cfg' = base
  /\ target_parsed' = tp
  /\ base_parsed' = bp
  /\ ids' = idf
  /\ used_target_lines' = cmp.used
  /\ results' = cmp.results
  /\ source' = cmp.source
  /\ tree' = built[1]
  /\ path_scores' = built[2]
  /\ pc' = "built"

Render_(out, base, tp, bp, idf, cmp) == Rendered_(out, base, tp, bp, idf, cmp, build_tree_loop(cmp.results, 1, EmptyTree, EmptyMap))

Differ_(out, base, tp, bp, idf) == Render_(out, base, tp, bp, idf, compare_all(tp, bp, idf))

\* differ = ConfigDiffer(output, base_cfg); differ.compare(); renderer.render()
DiffAndRender(out, base) == Differ_(out, base, parse(out), parse(base), [j \in 1..Len(parse(out)) |-> j])

\* stats .. self.RESULTS[...] = ..., from the page just rendered
Report_(s, template_path) ==
  /\ stats' = s
  /\ RESULTS' = reported(s, template_path)

\* except Exception as e: ...
Except_(description) ==
  /\ RESULTS' = failed(RESULTS, description)
  /\ UNCHANGED stats

\* handle_initial(device, cmd, out), fault being the step that raises
handle_initial_on(out, fault, loaded) ==
  /\ IF loaded.raises
     THEN /\ Except_(loaded.description)
          /\ UNCHANGED <<target_cfg, base_cfg, target_parsed, base_parsed, ids,
                         used_target_lines, results, source, tree,
                         path_scores, pc>>
     ELSE /\ DiffAndRender(out, loaded.base_cfg)
          /\ IF fault # ""
             THEN Except_(fault_description(fault))
             ELSE Report_(page_stats(results', tree'), loaded.template_path)
  /\ REQUESTS' = NoRequests
  /\ output' = out
  /\ calls' = calls + 1
  /\ raised' = ""
  /\ UNCHANGED <<check, cdp_data, TEMPLATE_MAP, files, failing, run, prev>>

ConfigAudit_handle_initial ==
  /\ check = "ConfigAuditDiffCheck"
  /\ raised = ""
  /\ <<"handler", "handle_initial">> \in REQUESTS
  /\ \E out \in TextsOver(AuditLines, MaxAuditTargetLines) :
       handle_initial_on(out, failing, load_template(TEMPLATE_MAP, files))

(***************************************************************************)
(* The checks that parse a command output with regular expressions.  An    *)
(* output is the sequence of its lines and a line is what the patterns of  *)
(* the check can find in it: Text is a line none of them matches.  A       *)
(* numeral is kept as the number of its digits and its value; int() of a   *)
(* numeral longer than the interpreter's limit raises ValueError.          *)
(***************************************************************************)
MaxOutputLines == 2
IntMaxStrDigits == 4300

Text == [kind |-> "text"]
\* The outputs of at most n lines.
Outputs(lines, n) == UNION {[1..k -> lines] : k \in 0..n}

\* len(str(value))
RECURSIVE digits_of(_)
digits_of(value) == IF value < 10 THEN 1 ELSE 1 + digits_of(value \div 10)

Numeral(value) == [digits |-> digits_of(value), value |-> value]
\* A numeral of more digits than int() converts; its value is never taken.
LongNumeral == [digits |-> IntMaxStrDigits + 1, value |-> 0]
int_raises(numeral) == numeral.digits > IntMaxStrDigits

\* What a handler call leaves: RESULTS, REQUESTS and cdp_data, the output it
\* was given and the exception it let escape.
Handled_(res, req, cd, out, exc) ==
  /\ RESULTS' = res
  /\ REQUESTS' = req
  /\ cdp_data' = cd
  /\ output' = out
  /\ raised' = exc
  /\ calls' = calls + 1
  /\ UNCHANGED <<target_cfg, base_cfg, target_parsed, base_parsed, ids,
                 used_target_lines, results, source, path_scores, tree,
                 pc, run, prev, check, TEMPLATE_MAP, files, failing, stats>>

\* The dispatcher calls the handler REQUESTS names, unless a call raised.
Requested(cls, handler) ==
  /\ check = cls
  /\ raised = ""
  /\ <<"handler", handler>> \in REQUESTS

(***************************************************************************)
(* FiberOpticsL1.  The values are in tenths.                               *)
(***************************************************************************)
Params == <<"temperature", "voltage", "current", "tx_power", "rx_power">>

THRESHOLDS ==
  [temperature |-> <<-100, 700>>, voltage |-> <<31, 35>>,
   current |-> <<0, 1000>>, tx_power |-> <<-100, 50>>,
   rx_power |-> <<-100, 50>>]

\* The lines regex_transceiver matches, with values inside and outside the
\* thresholds, and any other.
FiberLines ==
  {Text}
    \cup [kind : {"transceiver"}, interface : {"Eth1/1"},
          temperature : {400, 800}, voltage : {33, 30}, current : {500},
          tx_power : {0, -200}, rx_power : {0}]

\* for param, (min_val, max_val) in THRESHOLDS.items(): ... of one match
RECURSIVE param_issues(_, _)
param_issues(match, i) ==
  IF i > Len(Params) THEN <<>>
  ELSE (IF match[Params[i]] < THRESHOLDS[Params[i]][1]
           \/ match[Params[i]] > THRESHOLDS[Params[i]][2]
        THEN <<"Interface " \o match.interface \o ": " \o Params[i] \o " out of range">>
        ELSE <<>>)
       \o param_issues(match, i + 1)

\* for match in matches: ...
RECURSIVE transceiver_issues(_)
transceiver_issues(matches) ==
  IF matches = <<>> THEN <<>>
  ELSE param_issues(Head(matches), 1) \o transceiver_issues(Tail(matches))

\* regex_transceiver.finditer(output)
transceiver_matches(out) == SelectSeq(out, LAMBDA line : line.kind = "transceiver")

\* not matches: matches is an iterator object, which is true whatever it yields
not_iterator(matches) == FALSE

handle_transceiver_details(res, out) ==
  IF not_iterator(transceiver_matches(out))
  THEN [status |-> 2,
        observation |-> <<"No transceiver information detected in the output.">>,
        comments |-> Append(res.comments, "Ensure the device supports 'show interface transceiver details' and returns valid data.")]
  ELSE IF transceiver_issues(transceiver_matches(out)) # <<>>
  THEN [status |-> 2,
        observation |-> <<"Issues detected with one or more transceiver modules.">>,
        comments |-> res.comments \o transceiver_issues(transceiver_matches(out))]
  ELSE [status |-> 1,
        observation |-> <<"All transceiver modules are within acceptable parameters.">>,
        comments |-> Append(res.comments, "No anomalies found in transceiver status.")]

FiberOptics_handle_transceiver_details ==
  /\ Requested("FiberOpticsL1", "handle_transceiver_details")
  /\ \E out \in Outputs(FiberLines, MaxOutputLines) :
       Handled_(handle_transceiver_details(RESULTS, out), NoRequests, cdp_data, out, "")

(***************************************************************************)
(* InterfaceErrorCheck.                                                    *)
(***************************************************************************)
MaxInterfaceLines == 3

Counters == <<"runts", "giants", "crc", "input_errors", "output_errors", "collisions", "ignored">>

\* The lines of a 'show interface' output: the first line of an interface
\* block, a line on which one counter pattern matches, any other line.
InterfaceLines ==
  {Text}
    \cup [kind : {"interface"}, name : {"Eth1/1", "Eth1/2"}]
    \cup [kind : {"counter"}, counter : {"runts"}, numeral : {Numeral(0), Numeral(3), LongNumeral}]
    \cup [kind : {"counter"}, counter : {"crc"}, numeral : {Numeral(2)}]

\* (?=^\S+\s+is\s+|\Z): a block ends before the next interface line
RECURSIVE block_end(_, _)
block_end(out, i) ==
  IF i > Len(out) \/ out[i].kind = "interface" THEN i - 1
  ELSE block_end(out, i + 1)

\* interface_pattern.finditer(output)
RECURSIVE interface_blocks(_, _)
interface_blocks(out, i) ==
  IF i > Len(out) THEN <<>>
  ELSE IF out[i].kind = "interface"
  THEN <<SubSeq(out, i, block_end(out, i + 1))>> \o interface_blocks(out, i + 1)
  ELSE interface_blocks(out, i + 1)

\* re.search(pattern, text): the first match of the counter in the block, or
\* 0 when there is none.  The numeral is what int() is given.
_get_int(counter, block) ==
  LET m == SelectSeq(block, LAMBDA l : l.kind = "counter" /\ l.counter = counter) IN
  IF m = <<>> THEN Numeral(0) ELSE Head(m).numeral

block_raises(block) == \E c \in 1..Len(Counters) : int_raises(_get_int(Counters[c], block))
block_errors(block) == [c \in 1..Len(Counters) |-> _get_int(Counters[c], block).value]

\* error_interfaces[iface_name] = errors: a dict keeps the place of a key
\* that is assigned again.
dict_set(d, key, value) ==
  IF \E i \in 1..Len(d) : d[i][1] = key
  THEN [i \in 1..Len(d) |-> IF d[i][1] = key THEN <<key, value>> ELSE d[i]]
  ELSE Append(d, <<key, value>>)

RECURSIVE error_interfaces(_, _, _)
error_interfaces(blocks, i, d) ==
  IF i > Len(blocks) THEN d
  ELSE IF \E c \in 1..Len(Counters) : block_errors(blocks[i])[c] > 0
  THEN error_interfaces(blocks, i + 1, dict_set(d, blocks[i][1].name, block_errors(blocks[i])))
  ELSE error_interfaces(blocks, i + 1, d)

\* ", ".join([f"{k}: {v}" for k, v in counters.items() if v > 0])
RECURSIVE err_summary(_, _, _)
err_summary(counters, c, sep) ==
  IF c > Len(Counters) THEN ""
  ELSE IF counters[c] > 0
  THEN sep \o Counters[c] \o ": " \o ToString(counters[c]) \o err_summary(counters, c + 1, ", ")
  ELSE err_summary(counters, c + 1, sep)

interface_report(res, d) ==
  IF d = <<>>
  THEN [status |-> 1,
        observation |-> <<"No interface errors detected.">>,
        comments |-> Append(res.comments, "All interfaces are operating normally.")]
  ELSE [status |-> 2,
        observation |-> <<ToString(Len(d)), " interface(s) have error counters.">>,
        comments |-> res.comments \o [i \in 1..Len(d) |-> d[i][1] \o ": " \o err_summary(d[i][2], 1, "")]]

\* An int() that raises ends the call before anything was assigned.
handle_interface_errors(out) ==
  IF \E b \in 1..Len(interface_blocks(out, 1)) : block_raises(interface_blocks(out, 1)[b])
  THEN Handled_(RESULTS, REQUESTS, cdp_data, out, "ValueError")
  ELSE Handled_(interface_report(RESULTS, error_interfaces(interface_blocks(out, 1), 1, <<>>)), NoRequests, cdp_data, out, "")

InterfaceError_handle_interface_errors ==
  /\ Requested("InterfaceErrorCheck", "handle_interface_errors")
  /\ \E out \in Outputs(InterfaceLines, MaxInterfaceLines) : handle_interface_errors(out)

(***************************************************************************)
(* EnvironmentalStatusCheck.                                               *)
(***************************************************************************)
MaxTemperature == 75

\* The lines fan_pattern, psu_pattern and temp_pattern match, and any other.
EnvironmentLines ==
  {Text}
    \cup [kind : {"fan"}, name : {"1"}, status : {"ok", "failed"}]
    \cup [kind : {"psu"}, name : {"A"}, status : {"ok", "failed"}]
    \cup [kind : {"temp"}, name : {"s1"}, numeral : {Numeral(40), Numeral(80), LongNumeral}]

\* [name for name, status in pattern.findall(output) if status.lower() != "ok"]
RECURSIVE failed_units(_, _, _)
failed_units(out, kind, i) ==
  IF i > Len(out) THEN <<>>
  ELSE (IF out[i].kind = kind /\ out[i].status # "ok" THEN <<out[i].name>> ELSE <<>>)
       \o failed_units(out, kind, i + 1)

\* [sensor for sensor, temp in temp_readings if int(temp) > 75]
RECURSIVE high_temps(_, _)
high_temps(out, i) ==
  IF i > Len(out) THEN <<>>
  ELSE (IF out[i].kind = "temp" /\ out[i].numeral.value > MaxTemperature THEN <<out[i].name>> ELSE <<>>)
       \o high_temps(out, i + 1)

\* ', '.join(names)
RECURSIVE join_names(_, _)
join_names(names, sep) ==
  IF names = <<>> THEN ""
  ELSE sep \o Head(names) \o join_names(Tail(names), ", ")

unit_comment(label, names) == IF names = <<>> THEN <<>> ELSE <<label \o join_names(names, "")>>

environment_report(res, fans, psus, temps) ==
  [status |-> IF fans # <<>> \/ psus # <<>> \/ temps # <<>> THEN 2 ELSE 1,
   observation |-> IF fans # <<>> \/ psus # <<>> \/ temps # <<>>
                   THEN <<"Some environmental components have issues.">>
                   ELSE <<"All environmental components are operating normally.">>,
   comments |-> res.comments \o unit_comment("Failed Fans: ", fans)
                  \o unit_comment("Failed Power Supplies: ", psus)
                  \o unit_comment("High Temperature Sensors: ", temps)]

\* An int(temp) that raises ends the call before anything was assigned.
handle_environment_status(out) ==
  IF \E i \in 1..Len(out) : out[i].kind = "temp" /\ int_raises(out[i].numeral)
  THEN Handled_(RESULTS, REQUESTS, cdp_data, out, "ValueError")
  ELSE Handled_(environment_report(RESULTS, failed_units(out, "fan", 1), failed_units(out, "psu", 1), high_temps(out, 1)), NoRequests, cdp_data, out, "")

EnvironmentalStatus_handle_environment_status ==
  /\ Requested("EnvironmentalStatusCheck", "handle_environment_status")
  /\ \E out \in Outputs(EnvironmentLines, MaxOutputLines) : handle_environment_status(out)

(***************************************************************************)
(* BGPNeighborCheck.                                                       *)
(***************************************************************************)
\* The lines of a 'show ip bgp neighbors' output: 'BGP neighbor is <n>',
\* 'BGP state = <s>', a line with an address outside a neighbor header, a
\* line of white space, and any other (which holds no hexadecimal digit).
BgpLines ==
  {Text, [kind |-> "blank"]}
    \cup [kind : {"neighbor"}, neighbor : {"10.0.0.1"}]
    \cup [kind : {"state"}, state : {"Established", "Idle"}]
    \cup [kind : {"address"}, neighbor : {"10.0.0.2"}]

\* not output or not output.strip()
is_blank(out) == \A i \in 1..Len(out) : out[i].kind = "blank"

\* (?=\nBGP neighbor is\s+\S+|\Z): a block ends before the next header
RECURSIVE bgp_block_end(_, _)
bgp_block_end(out, i) ==
  IF i > Len(out) \/ out[i].kind = "neighbor" THEN i - 1
  ELSE bgp_block_end(out, i + 1)

\* state_re.search(block), "Unknown" when it finds nothing
block_state(states) == IF states = <<>> THEN "Unknown" ELSE Head(states).state

\* list(block_re.finditer(output)) and the (neighbor, state) of each block
RECURSIVE block_matches(_, _)
block_matches(out, i) ==
  IF i > Len(out) THEN <<>>
  ELSE IF out[i].kind = "neighbor"
  THEN <<<<out[i].neighbor, block_state(SelectSeq(SubSeq(out, i + 1, bgp_block_end(out, i + 1)), LAMBDA l : l.kind = "state"))>>>>
         \o block_matches(out, i + 1)
  ELSE block_matches(out, i + 1)

\* The neighbor group of the generic pattern matches an address, and also a
\* hexadecimal letter of a state line ('B' of 'BGP state').
generic_neighbor(line) == IF line.kind = "address" THEN line.neighbor ELSE "B"

\* The first line after i of one of the kinds, Len(out) + 1 without one.
RECURSIVE next_of(_, _, _)
next_of(out, kinds, i) ==
  IF i > Len(out) \/ out[i].kind \in kinds THEN i
  ELSE next_of(out, kinds, i + 1)

\* re.findall(generic pattern, output, re.DOTALL): a neighbor, then the
\* first state after it, then on from there.
RECURSIVE generic_matches(_, _)
RECURSIVE generic_from(_, _, _)
generic_from(out, a, s) ==
  IF s > Len(out) THEN <<>>
  ELSE <<<<generic_neighbor(out[a]), out[s].state>>>>
         \o generic_matches(out, s + 1)

generic_matches(out, i) ==
  IF next_of(out, {"address", "state"}, i) > Len(out) THEN <<>>
  ELSE generic_from(out, next_of(out, {"address", "state"}, i),
                    next_of(out, {"state"}, next_of(out, {"address", "state"}, i) + 1))

failed_neighbors(matches) == SelectSeq(matches, LAMBDA m : m[2] # "Established" /\ m[2] # "Unknown")
unknown_neighbors(matches) == SelectSeq(matches, LAMBDA m : m[2] = "Unknown")

bgp_problems(failedn, unknown) ==
  (IF failedn # <<>> THEN <<ToString(Len(failedn)), " not 'Established'">> ELSE <<>>)
    \o (IF failedn # <<>> /\ unknown # <<>> THEN <<", ">> ELSE <<>>)
    \o (IF unknown # <<>> THEN <<ToString(Len(unknown)), " with unknown state">> ELSE <<>>)

bgp_comments(failedn, unknown) ==
  [i \in 1..Len(failedn) |-> "Neighbor " \o failedn[i][1] \o " is in state " \o failedn[i][2] \o "."]
    \o [i \in 1..Len(unknown) |-> "Neighbor " \o unknown[i][1] \o ": state not found in output block."]

evaluate_states(res, failedn, unknown) ==
  IF failedn # <<>> \/ unknown # <<>>
  THEN [status |-> 2,
        observation |-> <<"Found ">> \o bgp_problems(failedn, unknown) \o <<".">>,
        comments |-> res.comments \o bgp_comments(failedn, unknown)]
  ELSE [res EXCEPT !.status = 1, !.observation = <<"All BGP neighbors are in 'Established' state.">>]

bgp_evaluate(res, matches) == evaluate_states(res, failed_neighbors(matches), unknown_neighbors(matches))

bgp_handle_initial(res, out) ==
  IF is_blank(out)
  THEN [res EXCEPT !.status = 5, !.observation = <<"Empty output received from device.">>]
  ELSE IF block_matches(out, 1) # <<>>
  THEN bgp_evaluate(res, block_matches(out, 1))
  ELSE IF generic_matches(out, 1) = <<>>
  THEN [status |-> 6,
        observation |-> <<"Unable to parse BGP neighbor states.">>,
        comments |-> Append(res.comments, "No neighbor blocks found. Check the exact command used on NX-OS (try 'show bgp ipv4 unicast neighbors').")]
  ELSE bgp_evaluate(res, generic_matches(out, 1))

BGPNeighbor_handle_initial ==
  /\ Requested("BGPNeighborCheck", "handle_initial")
  /\ \E out \in Outputs(BgpLines, MaxOutputLines) :
       Handled_(bgp_handle_initial(RESULTS, out), NoRequests, cdp_data, out, "")

(***************************************************************************)
(* CDPInterfaceDescriptionComplianceCheck.  cdp_data and descriptions are  *)
(* dicts: sequences of <<key, value>> in the order of insertion.           *)
(***************************************************************************)
\* The entries neighbor_pattern matches ('Device ID: ... Interface: ...,
\* Port ID (outgoing port): ...'), the host as its dot-separated labels.
CdpLines ==
  {Text}
    \cup [kind : {"cdp"}, remote_host : {<<"sw1">>, <<"sw2", "example">>},
          local_intf : {"Eth1/1"}, remote_intf : {"Eth2/1"}]
    \cup [kind : {"cdp"}, remote_host : {<<"sw1">>},
          local_intf : {"Eth1/2"}, remote_intf : {"Eth2/2"}]

\* The lines desc_pattern matches, and any other.
DescriptionLines ==
  {Text}
    \cup [kind : {"desc"}, intf : {"Eth1/1"}, desc : {"Eth1/1_sw1_Eth2/1", "uplink"}]
    \cup [kind : {"desc"}, intf : {"Eth1/2"}, desc : {""}]

\* for match in neighbor_pattern.finditer(output): self.cdp_data[local_intf] = {...}
RECURSIVE cdp_neighbors(_, _, _)
cdp_neighbors(out, i, d) ==
  IF i > Len(out) THEN d
  ELSE IF out[i].kind = "cdp"
  THEN cdp_neighbors(out, i + 1, dict_set(d, out[i].local_intf, [remote_host |-> Head(out[i].remote_host), remote_intf |-> out[i].remote_intf]))
  ELSE cdp_neighbors(out, i + 1, d)

cdp_neighbors_report(res, req, d) ==
  IF d = <<>>
  THEN [RESULTS |-> [status |-> 6,
                     observation |-> <<"No CDP neighbors found or parsing failed.">>,
                     comments |-> Append(res.comments, "Could not extract CDP neighbor data. Ensure 'show cdp neighbors detail' output is available.")],
        REQUESTS |-> NoRequests]
  ELSE [RESULTS |-> res,
        REQUESTS |-> Request("show interfaces description", "handle_interface_descriptions")]

handle_cdp_neighbors(out, d) ==
  Handled_(cdp_neighbors_report(RESULTS, REQUESTS, d).RESULTS, cdp_neighbors_report(RESULTS, REQUESTS, d).REQUESTS, d, out, "")

CDPInterfaceDescription_handle_cdp_neighbors ==
  /\ Requested("CDPInterfaceDescriptionComplianceCheck", "handle_cdp_neighbors")
  /\ \E out \in Outputs(CdpLines, MaxOutputLines) : handle_cdp_neighbors(out, cdp_neighbors(out, 1, cdp_data))

\* for match in desc_pattern.finditer(output): descriptions[intf] = desc
RECURSIVE descriptions(_, _, _)
descriptions(out, i, d) ==
  IF i > Len(out) THEN d
  ELSE IF out[i].kind = "desc"
  THEN descriptions(out, i + 1, dict_set(d, out[i].intf, out[i].desc))
  ELSE descriptions(out, i + 1, d)

\* d.get(key, default)
dict_get(d, key, default) ==
  IF \E i \in 1..Len(d) : d[i][1] = key
  THEN d[CHOOSE i \in 1..Len(d) : d[i][1] = key][2]
  ELSE default

expected_desc(entry) == entry[1] \o "_" \o entry[2].remote_host \o "_" \o entry[2].remote_intf

\* A variant of non_compliant that passes an interface the output has no
\* description line of.
non_compliant_if_described(cd, descs, i) == SelectSeq([k \in 1..Len(cd) |-> <<cd[k][1], dict_get(descs, cd[k][1], ""), expected_desc(cd[k])>>], LAMBDA t : t[2] # t[3] /\ \E d \in 1..Len(descs) : descs[d][1] = t[1])

\* for local_intf, info in self.cdp_data.items(): ... non_compliant.append(...)
RECURSIVE non_compliant(_, _, _)
non_compliant(cd, descs, i) ==
  IF i > Len(cd) THEN <<>>
  ELSE (IF dict_get(descs, cd[i][1], "") = expected_desc(cd[i]) THEN <<>>
        ELSE <<<<cd[i][1], dict_get(descs, cd[i][1], ""), expected_desc(cd[i])>>>>)
       \o non_compliant(cd, descs, i + 1)

\* ('--' stands for the dash of the source's text.)
description_comments(bad) ==
  [i \in 1..Len(bad) |->
     "Interface " \o bad[i][1] \o " has description '" \o bad[i][2] \o "' -- expected '" \o bad[i][3]
       \o "'. Remediation: update description using 'description " \o bad[i][3] \o "'."]

descriptions_report(res, cd, bad) ==
  IF Len(cd) = 0
  THEN [status |-> 6,
        observation |-> <<"No CDP-connected interfaces were found.">>,
        comments |-> Append(res.comments, "Check skipped -- no CDP neighbor interfaces detected.")]
  ELSE IF bad = <<>>
  THEN [status |-> 1,
        observation |-> <<"All ", ToString(Len(cd)), " CDP-connected interfaces have compliant descriptions.">>,
        comments |-> Append(res.comments, "All CDP-connected interfaces follow the standard naming convention.")]
  ELSE [status |-> 2,
        observation |-> <<ToString(Len(bad)), " out of ", ToString(Len(cd)), " CDP-connected interfaces have non-compliant descriptions.">>,
        comments |-> res.comments \o description_comments(bad)]

handle_interface_descriptions(res, cd, out) == descriptions_report(res, cd, non_compliant(cd, descriptions(out, 1, <<>>), 1))

CDPInterfaceDescription_handle_interface_descriptions ==
  /\ Requested("CDPInterfaceDescriptionComplianceCheck", "handle_interface_descriptions")
  /\ \E out \in Outputs(DescriptionLines, MaxOutputLines) :
       Handled_(handle_interface_descriptions(RESULTS, cdp_data, out), NoRequests, cdp_data, out, "")

(***************************************************************************)
(* CoppProfileStrictCheck.                                                 *)
(***************************************************************************)
\* A line pattern ('copp profile strict') is found in, and any other.
CoppLines == {Text, [kind |-> "copp"]}

\* (The comment of the FAIL branch is cut after its first sentence.)
handle_copp_status(res, out) ==
  IF \E i \in 1..Len(out) : out[i].kind = "copp"
  THEN [status |-> 1,
        observation |-> <<"CoPP profile is correctly set to strict.">>,
        comments |-> Append(res.comments, "The CoPP profile on the device is set to 'strict', which is the correct setting. No action is needed.")]
  ELSE [status |-> 2,
        observation |-> <<"CoPP profile is not set to strict.">>,
        comments |-> Append(res.comments, "The CoPP profile is not set to 'strict'.")]

CoppProfileStrict_handle_copp_status ==
  /\ Requested("CoppProfileStrictCheck", "handle_copp_status")
  /\ \E out \in Outputs(CoppLines, MaxOutputLines) :
       Handled_(handle_copp_status(RESULTS, out), NoRequests, cdp_data, out, "")

(***************************************************************************)
(* PortChannelCheck.                                                       *)
(***************************************************************************)
\* The flags of a port-channel name that hold a 'D'.
DownFlags == {"SD", "RD"}

\* The lines pattern matches (group, Po<n>(<flags>), type, protocol and at
\* least one member), and any other.
PortChannelLines ==
  {Text} \cup [kind : {"po"}, po : {"Po100"}, flags : {"SU", "SD"}, protocol : {"LACP", "NONE"}]

po_name(line) == line.po \o "(" \o line.flags \o ")"

\* for line in lines: ... port_channels_with_issues.append(...)
RECURSIVE port_channels_with_issues(_, _)
port_channels_with_issues(out, i) ==
  IF i > Len(out) THEN <<>>
  ELSE IF out[i].kind # "po" THEN port_channels_with_issues(out, i + 1)
  ELSE (IF out[i].flags \in DownFlags
        THEN <<po_name(out[i]) \o " has a down status (check flags in Po name).">>
        ELSE <<>>)
       \o (IF out[i].protocol # "LACP"
           THEN <<po_name(out[i]) \o " is not using LACP protocol (found " \o out[i].protocol \o ").">>
           ELSE <<>>)
       \o port_channels_with_issues(out, i + 1)

port_channel_report(res, issues) ==
  IF issues # <<>>
  THEN [status |-> 2,
        observation |-> <<"Found ", ToString(Len(issues)), " port-channel(s) with issues.">>,
        comments |-> res.comments \o issues]
  ELSE [status |-> 1,
        observation |-> <<"All port-channels are healthy.">>,
        comments |-> Append(res.comments, "No issues detected with port-channel configuration or status.")]

PortChannel_handle_initial ==
  /\ Requested("PortChannelCheck", "handle_initial")
  /\ \E out \in Outputs(PortChannelLines, MaxOutputLines) :
       Handled_(port_channel_report(RESULTS, port_channels_with_issues(out, 1)), NoRequests, cdp_data, out, "")

(***************************************************************************)
(* HsrpStateCheck.                                                         *)
(***************************************************************************)
\* The addresses ip_regex matches.
DottedQuads == {"10.0.0.1"}

\* The lines pattern matches, and any other.
HsrpLines ==
  {Text}
    \cup [kind : {"hsrp"}, intf : {"Vlan10"}, group : {"1"}, state : {"Active", "Init"},
          active : {"local", "10.0.0.1", "unknown"}, standby : {"local", "-"}]

hsrp_issues(m) ==
  (IF m.state \notin {"Active", "Standby", "local"}
   THEN <<"Interface " \o m.intf \o ", Group " \o m.group \o " has unexpected state '" \o m.state \o "'.">>
   ELSE <<>>)
    \o (IF m.active # "local" /\ m.active \notin DottedQuads
        THEN <<"Interface " \o m.intf \o ", Group " \o m.group \o ": Invalid Active IP '" \o m.active \o "'">>
        ELSE <<>>)
    \o (IF m.standby # "local" /\ m.standby \notin DottedQuads
        THEN <<"Interface " \o m.intf \o ", Group " \o m.group \o ": Invalid Standby IP '" \o m.standby \o "'">>
        ELSE <<>>)

RECURSIVE failed_groups(_)
failed_groups(matches) ==
  IF matches = <<>> THEN <<>>
  ELSE hsrp_issues(Head(matches)) \o failed_groups(Tail(matches))

hsrp_report(res, matches) ==
  IF matches = <<>>
  THEN [status |-> 2,
        observation |-> <<"No HSRP groups found.">>,
        comments |-> Append(res.comments, "HSRP output did not contain any group details.")]
  ELSE IF failed_groups(matches) # <<>>
  THEN [status |-> 2,
        observation |-> <<"Issues detected with HSRP group states or addresses.">>,
        comments |-> res.comments \o failed_groups(matches)]
  ELSE [status |-> 1,
        observation |-> <<"All HSRP groups are correctly configured and in proper state.">>,
        comments |-> Append(res.comments, "HSRP groups are operating correctly with valid Active/Standby roles.")]

handle_hsrp_brief(res, out) == hsrp_report(res, SelectSeq(out, LAMBDA l : l.kind = "hsrp"))

HsrpState_handle_hsrp_brief ==
  /\ Requested("HsrpStateCheck", "handle_hsrp_brief")
  /\ \E out \in Outputs(HsrpLines, MaxOutputLines) :
       Handled_(handle_hsrp_brief(RESULTS, out), NoRequests, cdp_data, out, "")

(***************************************************************************)
(* NXOSVersionCheck.                                                       *)
(***************************************************************************)
ExpectedVersion == "10.5(1)"

\* The lines version_regex matches, and any other.
VersionLines == {Text} \cup [kind : {"version"}, version : {"10.5(1)", "9.3(8)"}]

version_report(res, found) ==
  IF found = <<>>
  THEN [status |-> 6,
        observation |-> <<"Unable to determine NXOS version from output.">>,
        comments |-> Append(res.comments, "The version information could not be parsed. Please verify manually.")]
  ELSE IF Head(found).version = ExpectedVersion
  THEN [status |-> 1,
        observation |-> <<"NXOS version found: ", Head(found).version>>,
        comments |-> Append(res.comments, "Device is running the expected NXOS version: " \o Head(found).version \o ".")]
  ELSE [status |-> 2,
        observation |-> <<"NXOS version found: ", Head(found).version>>,
        comments |-> Append(res.comments, "Device is running NXOS version " \o Head(found).version \o ", which does not match the expected version 10.5(1)")]

handle_version_check(res, out) == version_report(res, SelectSeq(out, LAMBDA l : l.kind = "version"))

NXOSVersion_handle_version_check ==
  /\ Requested("NXOSVersionCheck", "handle_version_check")
  /\ \E out \in Outputs(VersionLines, MaxOutputLines) :
       Handled_(handle_version_check(RESULTS, out), NoRequests, cdp_data, out, "")

(***************************************************************************)
(* RouteMapPresenceCheck.  The output is a sequence of units: a line at    *)
(* column 0 (a route-map definition, 'router bgp <n>', any other) or an    *)
(* indented line with the lines under it (a peer template, a neighbor,     *)
(* 'exit').                                                                *)
(***************************************************************************)
MaxRouteMapUnits == 4

\* The names of the route-maps, in the order sorted() gives them.
RouteMapNames == <<"RM1", "RM2">>

RouteMapUnits ==
  {Text, [kind |-> "router bgp"], [kind |-> "exit"]}
    \cup [kind : {"route-map"}, name : {"RM1"}]
    \cup [kind : {"template"}, name : {"T1"}, maps : {{"RM2"}}]
    \cup [kind : {"neighbor"}, neighbor : {"10.0.0.1"}, inherit : {"", "T1"}, maps : {{}, {"RM1"}}]

\* for match in defined_pattern.finditer(output): defined_route_maps.add(...)
defined_route_maps(out) == {out[i].name : i \in {j \in 1..Len(out) : out[j].kind = "route-map"}}

\* (?=^\S|\Z): the section ends before the next line at column 0
RECURSIVE section_end(_, _)
section_end(out, i) ==
  IF i > Len(out) \/ out[i].kind \in {"text", "route-map", "router bgp"} THEN i - 1
  ELSE section_end(out, i + 1)

\* bgp_section_pattern.search(output).group(0), from the first 'router bgp'
bgp_config(out) ==
  SubSeq(out, next_of(out, {"router bgp"}, 1) + 1, section_end(out, next_of(out, {"router bgp"}, 1) + 1))

\* (?=^ {2,}(?:template|neighbor|exit|!|\Z)): template_pattern and
\* neighbor_pattern match a block only when an indented line follows it.
followed(config, i) == i < Len(config)

\* template_route_maps[template_name] = {m[0] for m in maps}, if maps
template_route_maps(config) ==
  {<<config[i].name, config[i].maps>> :
     i \in {j \in 1..Len(config) : config[j].kind = "template" /\ followed(config, j) /\ config[j].maps # {}}}

\* neighbor_to_template[neighbor] = inherit_match.group(1): the last
\* assignment to a neighbor stays
neighbor_to_template(config) ==
  {config[i].inherit :
     i \in {j \in 1..Len(config) :
              /\ config[j].kind = "neighbor" /\ followed(config, j) /\ config[j].inherit # ""
              /\ \A k \in (j + 1)..Len(config) :
                   ~(config[k].kind = "neighbor" /\ followed(config, k) /\ config[k].inherit # ""
                       /\ config[k].neighbor = config[j].neighbor)}}

\* template_route_maps[template]: the last assignment to a template stays
last_template_maps(config, name) ==
  config[CHOOSE i \in 1..Len(config) :
           /\ config[i].kind = "template" /\ followed(config, i) /\ config[i].maps # {} /\ config[i].name = name
           /\ \A k \in (i + 1)..Len(config) :
                ~(config[k].kind = "template" /\ followed(config, k) /\ config[k].maps # {} /\ config[k].name = name)].maps

used_route_maps(config) ==
  UNION {config[i].maps : i \in {j \in 1..Len(config) : config[j].kind = "neighbor" /\ followed(config, j)}}
    \cup UNION {last_template_maps(config, t) :
                  t \in {n \in neighbor_to_template(config) : \E e \in template_route_maps(config) : e[1] = n}}

\* ', '.join(sorted(names))
sorted_names(names) == join_names(SelectSeq(RouteMapNames, LAMBDA n : n \in names), "")

route_map_report(res, defined, used) ==
  IF used = {}
  THEN [status |-> 1,
        observation |-> <<"No route-maps are referenced under BGP neighbors or templates.">>,
        comments |-> Append(res.comments, "No route-maps found in BGP configuration.")]
  ELSE IF used \ defined = {}
  THEN [status |-> 1,
        observation |-> <<"All route-maps referenced in BGP configuration (including templates) are defined.">>,
        comments |-> res.comments \o <<"Defined route-maps: " \o sorted_names(defined), "Used route-maps: " \o sorted_names(used)>>]
  ELSE [status |-> 2,
        observation |-> <<"Some route-maps referenced in BGP configuration or templates are missing.">>,
        comments |-> res.comments \o <<"Missing route-maps: " \o sorted_names(used \ defined)>>
                       \o (IF defined # {} THEN <<"Defined route-maps: " \o sorted_names(defined)>> ELSE <<>>)
                       \o <<"Used route-maps: " \o sorted_names(used)>>]

handle_route_map_check(res, out) ==
  IF next_of(out, {"router bgp"}, 1) > Len(out)
  THEN [status |-> 2,
        observation |-> <<"No BGP configuration found.">>,
        comments |-> Append(res.comments, "Ensure 'router bgp' is present in configuration.")]
  ELSE route_map_report(res, defined_route_maps(out), used_route_maps(bgp_config(out)))

RouteMapPresence_handle_route_map_check ==
  /\ Requested("RouteMapPresenceCheck", "handle_route_map_check")
  /\ \E out \in Outputs(RouteMapUnits, MaxRouteMapUnits) :
       Handled_(handle_route_map_check(RESULTS, out), NoRequests, cdp_data, out, "")

CheckClasses ==
  {"ConfigAuditDiffCheck", "FiberOpticsL1", "InterfaceErrorCheck", "EnvironmentalStatusCheck",
   "BGPNeighborCheck", "CDPInterfaceDescriptionComplianceCheck", "CoppProfileStrictCheck",
   "PortChannelCheck", "HsrpStateCheck", "NXOSVersionCheck", "RouteMapPresenceCheck"}

\* The command and handler a class requests at construction.
first_request(cls) ==
  CASE cls = "ConfigAuditDiffCheck" -> Request("show running-config", "handle_initial")
    [] cls = "FiberOpticsL1" -> Request("show interface transceiver details", "handle_transceiver_details")
    [] cls = "InterfaceErrorCheck" -> Request("show interface", "handle_interface_errors")
    [] cls = "EnvironmentalStatusCheck" -> Request("show environment", "handle_environment_status")
    [] cls = "BGPNeighborCheck" -> Request("show ip bgp neighbors", "handle_initial")
    [] cls = "CDPInterfaceDescriptionComplianceCheck" -> Request("show cdp neighbors detail", "handle_cdp_neighbors")
    [] cls = "CoppProfileStrictCheck" -> Request("show run | i strict", "handle_copp_status")
    [] cls = "PortChannelCheck" -> Request("show port-channel summary", "handle_initial")
    [] cls = "HsrpStateCheck" -> Request("show hsrp brief", "handle_hsrp_brief")
    [] cls = "NXOSVersionCheck" -> Request("show version", "handle_version_check")
    [] cls = "RouteMapPresenceCheck" -> Request("show run", "handle_route_map_check")

InitChecks ==
  /\ target_cfg = <<>>
  /\ base_cfg = <<>>
  /\ Constructed
  /\ run = 1
  /\ prev = NoOutput
  /\ check \in CheckClasses
  /\ REQUESTS = first_request(check)
  /\ RESULTS = NewResults
  /\ cdp_data = <<>>
  /\ output = <<>>
  /\ calls = 0
  /\ raised = ""
  /\ stats = NoStats
  /\ TEMPLATE_MAP \in Registries
  /\ files \in FileSystems
  /\ failing \in Faults
  /\ check # "ConfigAuditDiffCheck" =>
       (TEMPLATE_MAP = EmptyMap /\ files = EmptyMap /\ failing = "")

NextChecks ==
  \/ ConfigAudit_handle_initial
  \/ FiberOptics_handle_transceiver_details
  \/ InterfaceError_handle_interface_errors
  \/ EnvironmentalStatus_handle_environment_status
  \/ BGPNeighbor_handle_initial
  \/ CDPInterfaceDescription_handle_cdp_neighbors
  \/ CDPInterfaceDescription_handle_interface_descriptions
  \/ CoppProfileStrict_handle_copp_status
  \/ PortChannel_handle_initial
  \/ HsrpState_handle_hsrp_brief
  \/ NXOSVersion_handle_version_check
  \/ RouteMapPresence_handle_route_map_check

SpecChecks == InitChecks /\ [][NextChecks]_vars

(***************************************************************************)
(* The compliance summary as a function of the counts, whatever page they  *)
(* were taken from.                                                        *)
(***************************************************************************)
MaxCount == 5

AllStats == [unchanged : 0..MaxCount, changed : 0..MaxCount, added : 0..MaxCount, removed : 0..MaxCount]

InitTier ==
  /\ target_cfg = <<>>
  /\ base_cfg = <<>>
  /\ Constructed
  /\ run = 1
  /\ prev = NoOutput
  /\ check = "ConfigAuditDiffCheck"
  /\ REQUESTS = Request("show running-config", "handle_initial")
  /\ RESULTS = NewResults
  /\ cdp_data = <<>>
  /\ output = <<>>
  /\ calls = 0
  /\ raised = ""
  /\ TEMPLATE_MAP = (template_name :> "ref.cfg")
  /\ files = ("ref.cfg" :> <<>>)
  /\ failing = ""
  /\ stats \in AllStats

\* The end of handle_initial's try block, from stats on, and its finally.
Summarize ==
  /\ check = "ConfigAuditDiffCheck"
  /\ <<"handler", "handle_initial">> \in REQUESTS
  /\ RESULTS' = reported(stats, TEMPLATE_MAP[template_name])
  /\ REQUESTS' = NoRequests
  /\ calls' = calls + 1
  /\ UNCHANGED <<target_cfg, base_cfg, target_parsed, base_parsed, ids,
                 used_target_lines, results, source, path_scores, tree,
                 pc, run, prev, check, cdp_data, TEMPLATE_MAP, files,
                 failing, output, raised, stats>>

NextTier == Summarize

SpecTier == InitTier /\ [][NextTier]_vars

(***************************************************************************)
(* The BGP scenario: a parent header and a child whose last token differs. *)
(***************************************************************************)
MaxScenarioLines == 2

\* "router bgp 65000"
RouterBgp ==
  <<"r", "o", "u", "t", "e", "r", " ", "b", "g", "p", " ", "6", "5", "0", "0", "0">>

\* " neighbor 10.0.0.1 remote-as 65001"
Neighbor65001 ==
  <<" ", "n", "e", "i", "g", "h", "b", "o", "r", " ", "1", "0", ".", "0", ".", "0", ".", "1", " ", "r", "e", "m", "o", "t", "e", "-", "a", "s", " ", "6", "5", "0", "0", "1">>

\* " neighbor 10.0.0.1 remote-as 65002"
Neighbor65002 ==
  <<" ", "n", "e", "i", "g", "h", "b", "o", "r", " ", "1", "0", ".", "0", ".", "0", ".", "1", " ", "r", "e", "m", "o", "t", "e", "-", "a", "s", " ", "6", "5", "0", "0", "2">>

ScenarioLines == {RouterBgp, Neighbor65001, Neighbor65002}

InitScenario ==
  /\ base_cfg \in TextsOver(ScenarioLines, MaxScenarioLines)
  /\ target_cfg \in TextsOver(ScenarioLines, MaxScenarioLines)
  /\ Constructed
  /\ Standalone
  /\ run = 1
  /\ prev = NoOutput

SpecScenario == InitScenario /\ [][Next]_vars

(***************************************************************************)
(* parse() on texts with blank lines, tabs and returns to a shallower      *)
(* scope: compare() parses the base text, the target text being empty.     *)
(***************************************************************************)
MaxParseLines == 4

\* The raw lines: three depths of indentation, an empty line, a line of one
\* space, and a line that starts with a tab.
ParseLines ==
  { <<"a">>, <<" ", "b">>, <<" ", " ", "c">>, <<>>, <<" ">>, <<"\t", "b">> }

InitParse ==
  /\ base_cfg \in TextsOver(ParseLines, MaxParseLines)
  /\ target_cfg = <<>>
  /\ Constructed
  /\ Standalone
  /\ run = 1
  /\ prev = NoOutput

SpecParse == InitParse /\ [][Next]_vars

(***************************************************************************)
(* Flat texts whose lines differ in their first token or in their number   *)
(* of tokens: the pairs cisco_similarity rejects outright, and a pair at   *)
(* the largest accepted difference.                                        *)
(***************************************************************************)
MaxRejectLines == 2

\* n tokens x separated by single spaces.
Xs(n) == [i \in 1..(2 * n - 1) |-> IF i % 2 = 1 THEN "x" ELSE " "]

\* "x x x x", "x x x y", "y x x x", and lines of 8 and of 9 tokens x.
RejectLines ==
  { Xs(4), <<"x", " ", "x", " ", "x", " ", "y">>, <<"y", " ", "x", " ", "x", " ", "x">>,
    Xs(MaxTokenGap + 4), Xs(MaxTokenGap + 5) }

InitReject ==
  /\ base_cfg \in TextsOver(RejectLines, MaxRejectLines)
  /\ target_cfg \in TextsOver(RejectLines, MaxRejectLines)
  /\ Constructed
  /\ Standalone
  /\ run = 1
  /\ prev = NoOutput

SpecReject == InitReject /\ [][Next]_vars

(***************************************************************************)
(* The interface scenario: a header and description lines under it.        *)
(***************************************************************************)
\* "interface Eth1/1"
InterfaceEth ==
  <<"i", "n", "t", "e", "r", "f", "a", "c", "e", " ", "E", "t", "h", "1", "/", "1">>

\* "  description foo"
DescriptionFoo ==
  <<" ", " ", "d", "e", "s", "c", "r", "i", "p", "t", "i", "o", "n", " ", "f", "o", "o">>

\* "  description bar"
DescriptionBar ==
  <<" ", " ", "d", "e", "s", "c", "r", "i", "p", "t", "i", "o", "n", " ", "b", "a", "r">>

\* "  description  foo x"
DescriptionFooX ==
  <<" ", " ", "d", "e", "s", "c", "r", "i", "p", "t", "i", "o", "n", " ", " ", "f", "o", "o", " ", "x">>

Scenario2Lines == {InterfaceEth, DescriptionFoo, DescriptionBar, DescriptionFooX}

InitScenario2 ==
  /\ base_cfg \in TextsOver(Scenario2Lines, MaxScenarioLines)
  /\ target_cfg \in TextsOver(Scenario2Lines, MaxScenarioLines)
  /\ Constructed
  /\ Standalone
  /\ run = 1
  /\ prev = NoOutput

SpecScenario2 == InitScenario2 /\ [][Next]_vars

(***************************************************************************)
(* Vocabulary of the properties.                                           *)
(***************************************************************************)
Compared == pc \in {"compared", "built"}
BaseKeys == 1..Min2(Len(results), Len(base_parsed))
SetMin(S) == CHOOSE x \in S : \A y \in S : x <= y
SetMax(S) == CHOOSE x \in S : \A y \in S : x >= y

\* The target lines at the path of base line k that no earlier base line
\* consumed: the pool base line k is matched against.
Pool(k) ==
  {j \in 1..Len(target_parsed) :
     /\ target_parsed[j].path = base_parsed[k].path
     /\ \A h \in 1..(k - 1) : source[h] # j}

Sim(k, j) == cisco_similarity(base_parsed[k].string, target_parsed[j].string)

\* What makes cisco_similarity reject a pair outright.
Ineligible(k, j) ==
  LET a_tokens == split(base_parsed[k].string)
      b_tokens == split(target_parsed[j].string)
  IN \/ target_parsed[j].path # base_parsed[k].path
     \/ a_tokens[1] # b_tokens[1]
     \/ Abs(Len(a_tokens) - Len(b_tokens)) > MaxTokenGap

\* C1 (Coverage): once compare() has run, keys 1..|base| of results are the
\* base-derived records, one per base line and in base order; every target
\* line is the source of exactly one record, which is either a matched
\* base-derived record holding its text as best_match or an added record
\* holding its text; so #records = |base| + |target| - #matched.
C1_Coverage ==
  Compared =>
    /\ Len(results) = Len(base_parsed) + Len(target_parsed)
                      - Cardinality({k \in DOMAIN results : results[k].is_matched})
    /\ \A k \in DOMAIN results :
         /\ results[k].is_added <=> k > Len(base_parsed)
         /\ k <= Len(base_parsed) => results[k].string = base_parsed[k].string
         /\ source[k] # 0 <=> (results[k].is_matched \/ results[k].is_added)
         /\ ~(results[k].is_matched /\ results[k].is_added)
    /\ \A j \in 1..Len(target_parsed) :
         /\ Cardinality({k \in DOMAIN results : source[k] = j}) = 1
         /\ \A k \in DOMAIN results :
              source[k] = j =>
                IF results[k].is_added
                THEN results[k].string = target_parsed[j].string
                ELSE results[k].best_match = target_parsed[j].string

\* A diff with a matched, a removed and an added record, where two base
\* lines competed for the same target line.
C1_Witness ==
  /\ Compared
  /\ \E k \in DOMAIN results : results[k].is_matched
  /\ \E k \in DOMAIN results : results[k].is_added
  /\ \E k \in DOMAIN results :
       /\ ~results[k].is_matched /\ ~results[k].is_added
       /\ \E h \in 1..(k - 1) :
            /\ source[h] # 0
            /\ target_parsed[source[h]].path = results[k].path
            /\ Sim(k, source[h]) >= Threshold

\* C2 (Self-diff): when base and target are the same text, compare() yields
\* no removed and no added record: every record is matched with score 1.0
\* and best_match equal to its own text.
C2_SelfDiff ==
  (Compared /\ base_cfg = target_cfg) =>
    \A k \in DOMAIN results :
      /\ results[k].is_matched
      /\ ~results[k].is_added
      /\ results[k].similarity_score = One
      /\ results[k].best_match = results[k].string

\* A self-diff of a text with a repeated parent header and with two lines at
\* one path that differ only in inner whitespace.
C2_Witness ==
  /\ Compared
  /\ base_cfg = target_cfg
  /\ \E k, h \in DOMAIN results :
       /\ k < h
       /\ results[k].is_parent /\ results[h].is_parent
       /\ results[k].string = results[h].string
       /\ results[k].path = results[h].path
  /\ \E k, h \in DOMAIN results :
       /\ results[k].path = results[h].path
       /\ results[k].string # results[h].string
       /\ split(results[k].string) = split(results[h].string)

\* C3 (Path consistency): the target line a matched record consumed is at
\* the base line's path, and an added record carries the path of its own
\* target line.
C3_PathConsistency ==
  \A k \in DOMAIN results :
    /\ k <= Len(base_parsed) => results[k].path = base_parsed[k].path
    /\ source[k] # 0 => target_parsed[source[k]].path = results[k].path

\* A matched record at a nested path while the target holds a line of the
\* very same text at another path.
C3_Witness ==
  \E k \in DOMAIN results :
    /\ results[k].is_matched
    /\ results[k].path # <<>>
    /\ \E j \in 1..Len(target_parsed) :
         /\ target_parsed[j].path # results[k].path
         /\ target_parsed[j].string = results[k].string

\* C4 (Parent lines match exactly or not at all): a base parent line is
\* matched iff its pool holds a line of exactly its text; it then consumes
\* the first such line with score 1.0 and best_match equal to its text;
\* otherwise it is unmatched with score -1.0 and consumes nothing.
C4_ParentExact ==
  \A k \in BaseKeys :
    base_parsed[k].is_parent =>
      LET exact == {j \in Pool(k) :
                      target_parsed[j].string = base_parsed[k].string}
      IN IF exact = {}
         THEN /\ ~results[k].is_matched
              /\ results[k].similarity_score = NoCandidate
              /\ results[k].best_match = <<>>
              /\ source[k] = 0
         ELSE /\ results[k].is_matched
              /\ results[k].similarity_score = One
              /\ results[k].best_match = results[k].string
              /\ source[k] = SetMin(exact)

\* A base parent line left unmatched although its pool holds a line whose
\* similarity to it is 1.0.
C4_Witness ==
  \E k \in BaseKeys :
    /\ base_parsed[k].is_parent
    /\ ~results[k].is_matched
    /\ \E j \in Pool(k) : Sim(k, j) = One

\* C5 (Disposition mapping): an added record is rendered added, an
\* unmatched base record removed, and a matched record is identical (score
\* 1.0, not rendered as changed) iff its text equals its best_match exactly;
\* any other matched record is rendered changed.
C5_Disposition ==
  \A k \in DOMAIN results :
    LET item == results[k] IN
    IF item.is_added THEN render_class(item) = "is-added"
    ELSE IF ~item.is_matched THEN render_class(item) = "is-removed"
    ELSE IF item.string = item.best_match
         THEN /\ item.similarity_score = One
              /\ render_class(item) \in {"is-unchanged", ""}
         ELSE /\ item.similarity_score < One
              /\ render_class(item) = "is-changed"

\* C6 (Threshold and best candidate): a base line that is not a parent is
\* matched iff the greatest similarity over its pool is at least 0.6; it
\* then consumes the first pool line of that greatest similarity and keeps
\* that score; otherwise it is unmatched and consumes nothing.
C6_ThresholdBest ==
  \A k \in BaseKeys :
    ~base_parsed[k].is_parent =>
      LET pool == Pool(k)
          sim == [j \in pool |-> Sim(k, j)]
          top == IF pool = {} THEN NoCandidate
                 ELSE SetMax({sim[j] : j \in pool})
      IN IF pool # {} /\ top >= Threshold
         THEN /\ results[k].is_matched
              /\ results[k].similarity_score = top
              /\ source[k] = SetMin({j \in pool : sim[j] = top})
              /\ results[k].best_match = target_parsed[source[k]].string
         ELSE /\ ~results[k].is_matched
              /\ source[k] = 0
              /\ results[k].best_match = <<>>

\* A matched base line whose pool held two lines of the greatest similarity,
\* next to a base line left unmatched although its pool was not empty.
C6_Witness ==
  /\ \E k \in BaseKeys :
       /\ ~base_parsed[k].is_parent
       /\ results[k].is_matched
       /\ \E i, j \in Pool(k) :
            /\ i # j
            /\ Sim(k, i) = results[k].similarity_score
            /\ Sim(k, j) = results[k].similarity_score
  /\ \E k \in BaseKeys :
       /\ ~base_parsed[k].is_parent
       /\ ~results[k].is_matched
       /\ \E j \in Pool(k) : Sim(k, j) > 0

\* C7 as claimed (Score monotonicity): an accepted match has similarity of
\* at least 0.6, and every pool line scored for a base line but not paired
\* with it has similarity below 0.6 or is structurally ineligible.
C7_Monotonicity_Claimed ==
  \A k \in BaseKeys :
    /\ results[k].is_matched => results[k].similarity_score >= Threshold
    /\ ~base_parsed[k].is_parent =>
         \A j \in Pool(k) :
           j # source[k] => (Sim(k, j) < Threshold \/ Ineligible(k, j))

\* C7 as amended: an accepted match has similarity of at least 0.6; every
\* pool line scored for a base line but not paired with it has similarity
\* no greater than the accepted match's, and, when the base line is left
\* unmatched, similarity below 0.6 (0.0 when it is structurally ineligible).
C7_Monotonicity ==
  \A k \in BaseKeys :
    /\ results[k].is_matched => results[k].similarity_score >= Threshold
    /\ ~base_parsed[k].is_parent =>
         \A j \in Pool(k) :
           LET score == Sim(k, j) IN
           /\ Ineligible(k, j) => score = 0
           /\ j # source[k] =>
                IF results[k].is_matched
                THEN score <= results[k].similarity_score
                ELSE score < Threshold

\* A matched base line with a pool line it did not take that still scores
\* at least 0.6, but less than the line taken.
C7_Witness ==
  \E k \in BaseKeys :
    /\ ~base_parsed[k].is_parent
    /\ results[k].is_matched
    /\ \E j \in Pool(k) :
         /\ j # source[k]
         /\ Sim(k, j) >= Threshold
         /\ Sim(k, j) < results[k].similarity_score

\* C8 (Span boundedness): every index in diff_positions of every record is
\* at least 0 and below max(len(text), len(best_match)), and no index
\* occurs twice.
C8_SpanBounded ==
  \A k \in DOMAIN results :
    LET item == results[k]
        dp == item.diff_positions
    IN /\ \A i \in 1..Len(dp) :
            /\ dp[i] >= 0
            /\ dp[i] < Max2(Len(item.string), Len(item.best_match))
       /\ \A i, j \in 1..Len(dp) : dp[i] = dp[j] => i = j

\* A matched record whose two texts differ in length and inside the common
\* length, next to a removed and an added record.
C8_Witness ==
  /\ \E k \in DOMAIN results :
       /\ results[k].is_matched
       /\ Len(results[k].string) # Len(results[k].best_match)
       /\ \E i \in 1..Len(results[k].diff_positions) :
            results[k].diff_positions[i]
              < Min2(Len(results[k].string), Len(results[k].best_match))
  /\ \E k \in DOMAIN results : results[k].is_added
  /\ \E k \in DOMAIN results :
       ~results[k].is_matched /\ ~results[k].is_added

\* C9 (Determinism): a further invocation on the same two texts, whatever
\* ids its objects get, produces the result records of the previous one
\* (same order and fields) and, once built, the same tree and path scores.
C9_Determinism ==
  run >= 2 =>
    /\ Compared => results = prev.results
    /\ pc = "built" => (tree = prev.tree /\ path_scores = prev.path_scores)

\* A second invocation that has built its tree, whose target dicts got
\* their ids in another order than they were created in, with a matched, a
\* removed and an added record.
C9_Witness ==
  /\ run = 2
  /\ pc = "built"
  /\ Len(ids) = 2 /\ ids[1] > ids[2]
  /\ used_target_lines # {}
  /\ \E k \in DOMAIN results : results[k].is_matched
  /\ \E k \in DOMAIN results : results[k].is_added
  /\ \E k \in DOMAIN results :
       ~results[k].is_matched /\ ~results[k].is_added

\* The places of the tree that refer to record k: <<node, position>>.
Places(k) ==
  {p \in UNION {{<<node, i>> : i \in 1..Len(tree[node].root_items)} :
                node \in DOMAIN tree} :
     tree[p[1]].root_items[p[2]] = k}

\* C10 (Path integrity of the tree): after _build_tree on a fresh renderer
\* every node is reached from the root through keys of its ancestors, every
\* record a node lists is a record of results whose path, split into its
\* segments, is the key path of that node, and no record is listed twice.
C10_PathIntegrity ==
  pc = "built" =>
    /\ \A node \in DOMAIN tree :
         /\ node # <<>> =>
              /\ SubSeq(node, 1, Len(node) - 1) \in DOMAIN tree
              /\ has_key(tree, SubSeq(node, 1, Len(node) - 1), node[Len(node)])
         /\ \A i \in 1..Len(tree[node].root_items) :
              LET k == tree[node].root_items[i] IN
              /\ k \in DOMAIN results
              /\ node = IF results[k].path = <<>> THEN <<>>
                        ELSE split_on(results[k].path, DELIM)
    /\ \A k \in DOMAIN results : Cardinality(Places(k)) <= 1

\* A built tree that lists records at the root, one level down and two
\* levels down, and leaves one record out.
C10_Witness ==
  /\ pc = "built"
  /\ \E node \in DOMAIN tree : Len(node) = 2 /\ tree[node].root_items # <<>>
  /\ \E node \in DOMAIN tree : Len(node) = 1 /\ tree[node].root_items # <<>>
  /\ tree[<<>>].root_items # <<>>
  /\ \E k \in DOMAIN results : Places(k) = {}

\* C11 as claimed (Tree exclusion rule): after _build_tree the only records
\* left out of their node's list are the removed parent headers; an added
\* parent header and a matched parent header are listed.
C11_TreeExclusion_Claimed ==
  pc = "built" =>
    \A k \in DOMAIN results :
      Places(k) = {} <=>
        (results[k].is_parent /\ ~results[k].is_matched /\ ~results[k].is_added)

\* C11 as amended: after _build_tree the records left out of their node's
\* list are exactly the parent headers that are not matched, removed and
\* added ones alike; a matched parent header and every line that is not a
\* parent header are listed once, at the node of their path.
C11_TreeExclusion ==
  pc = "built" =>
    \A k \in DOMAIN results :
      IF results[k].is_parent /\ ~results[k].is_matched
      THEN Places(k) = {}
      ELSE \E node \in DOMAIN tree :
             /\ node = IF results[k].path = <<>> THEN <<>>
                       ELSE split_on(results[k].path, DELIM)
             /\ \E i \in 1..Len(tree[node].root_items) :
                  Places(k) = {<<node, i>>}

\* A built tree of a diff with an added parent header and a removed parent
\* header, both left out, next to an added child that is listed.
C11_Witness ==
  /\ pc = "built"
  /\ \E k \in DOMAIN results :
       results[k].is_parent /\ results[k].is_added /\ Places(k) = {}
  /\ \E k \in DOMAIN results :
       /\ results[k].is_parent /\ ~results[k].is_added /\ ~results[k].is_matched
       /\ Places(k) = {}
  /\ \E k \in DOMAIN results :
       ~results[k].is_parent /\ results[k].is_added /\ Places(k) # {}

\* handle_initial has returned from its try block without an exception.
Reported == check = "ConfigAuditDiffCheck" /\ calls = 1 /\ RESULTS.status # 5

\* The dispositions of a result record.
IsRemoved(item) == ~item.is_added /\ ~item.is_matched
IsChanged(item) == ~item.is_added /\ item.is_matched /\ item.similarity_score < One

\* C12 (Fully-compliant tier): when handle_initial has reported, the status
\* is COMPLIANT (1) iff no result record is Matched-Changed and none is
\* Unmatched-Removed, parent headers included.
C12_FullyCompliant ==
  Reported =>
    (RESULTS.status = 1 <=>
       \A k \in DOMAIN results : ~IsRemoved(results[k]) /\ ~IsChanged(results[k]))

TemplateMissing ==
  template_name \notin DOMAIN TEMPLATE_MAP \/ TEMPLATE_MAP[template_name] = ""

\* C14 (TemplateNotFound): when 'nexus_ref' is absent from TEMPLATE_MAP or
\* maps to an empty path, handle_initial lets no exception escape and ends
\* with status 5, an observation that holds the template name, no diff
\* computed and REQUESTS empty.
C14_TemplateNotFound ==
  (check = "ConfigAuditDiffCheck" /\ calls = 1 /\ TemplateMissing) =>
    /\ raised = ""
    /\ RESULTS.status = 5
    /\ \E i \in 1..Len(RESULTS.observation) :
         RESULTS.observation[i] = template_name
    /\ results = <<>>
    /\ target_parsed = <<>>
    /\ base_parsed = <<>>
    /\ tree = EmptyTree
    /\ pc = "new"
    /\ REQUESTS = NoRequests

\* handle_initial has been called with a text of two lines while the
\* registry held no usable path, although the template file is there.
C14_Witness ==
  /\ check = "ConfigAuditDiffCheck"
  /\ calls = 1
  /\ TemplateMissing
  /\ Len(splitlines(output)) = 2
  /\ files # EmptyMap

\* An exception is raised inside handle_initial: by load_template(), or by
\* the step the surroundings make fail.
LoadFails ==
  TemplateMissing \/ TEMPLATE_MAP[template_name] \notin DOMAIN files

\* C15 (InternalFailure containment): whatever step of handle_initial
\* raises, no exception escapes, the status is 5 and the observation ends
\* with the description of the failure; in every outcome REQUESTS is empty
\* and the status is one of 1, 3, 4, 5 when handle_initial has returned.
C15_Containment ==
  (check = "ConfigAuditDiffCheck" /\ calls = 1) =>
    /\ raised = ""
    /\ REQUESTS = NoRequests
    /\ RESULTS.status \in {1, 3, 4, 5}
    /\ (LoadFails \/ failing # "") =>
         /\ RESULTS.status = 5
         /\ Len(RESULTS.observation) > 1
         /\ SubSeq(RESULTS.observation, 2, Len(RESULTS.observation))
              = IF LoadFails
                THEN load_template(TEMPLATE_MAP, files).description
                ELSE fault_description(failing)
    /\ ~(LoadFails \/ failing # "") => RESULTS.status \in {1, 3, 4}

\* handle_initial has returned after the writing of the page failed, the
\* diff of two texts being computed and its tree built.
C15_Witness ==
  /\ check = "ConfigAuditDiffCheck"
  /\ calls = 1
  /\ failing = "save"
  /\ ~LoadFails
  /\ Len(results) > 2
  /\ pc = "built"
  /\ RESULTS.status = 5

\* C16 (Empty inputs): when the base text parses to no line, compare()
\* yields one added record per target line, in order, each with every index
\* of its text as diff_positions; when the target text parses to no line,
\* it yields one removed record per base line, in order, each with every
\* index of its text as diff_positions.
C16_EmptyInputs ==
  Compared =>
    /\ base_parsed = <<>> =>
         /\ Len(results) = Len(target_parsed)
         /\ \A k \in DOMAIN results :
              /\ results[k].is_added /\ ~results[k].is_matched
              /\ results[k].string = target_parsed[k].string
              /\ results[k].best_match = <<>>
              /\ results[k].diff_positions =
                   [i \in 1..Len(target_parsed[k].string) |-> i - 1]
    /\ target_parsed = <<>> =>
         /\ Len(results) = Len(base_parsed)
         /\ \A k \in DOMAIN results :
              /\ ~results[k].is_added /\ ~results[k].is_matched
              /\ results[k].string = base_parsed[k].string
              /\ results[k].best_match = <<>>
              /\ results[k].diff_positions =
                   [i \in 1..Len(base_parsed[k].string) |-> i - 1]

\* The diff of a base of three lines, a parent header among them, against
\* an empty target.
C16_Witness ==
  /\ Compared
  /\ target_cfg = <<>>
  /\ Len(results) = 3
  /\ \E k \in DOMAIN results : results[k].is_parent
  /\ \E k \in DOMAIN results : Len(results[k].diff_positions) > 1

\* The diff of the BGP scenario has been computed.
Scenario5 ==
  /\ Compared
  /\ base_cfg = join(<<RouterBgp, Neighbor65001>>, NL)
  /\ target_cfg = join(<<RouterBgp, Neighbor65002>>, NL)

\* C17 as claimed (Scenario 5): the parent record is Matched-Identical and
\* the child record Matched-Changed, its similarity being
\* 0.7 * (2/4) + 0.3 * token overlap.
C17_Scenario5_Claimed ==
  Scenario5 =>
    /\ results[1].is_matched /\ results[1].similarity_score = One
    /\ results[2].is_matched /\ render_class(results[2]) = "is-changed"
    /\ results[2].similarity_score =
         PrefixWeight * ((2 * Unit) \div 4)
         + TokenWeight * token_jaccard(results[2].string, results[2].best_match)

\* C17 as amended: the parent record is Matched-Identical and the child
\* record Matched-Changed; the first 3 of the 4 tokens agree and 3 of the 5
\* distinct tokens are shared, so its similarity is
\* 0.7 * (3/4) + 0.3 * (3/5) = 0.705, and the only differing position is
\* the last character.
C17_Scenario5 ==
  Scenario5 =>
    /\ Len(results) = 2
    /\ results[1].is_parent /\ results[1].is_matched
    /\ results[1].similarity_score = One
    /\ results[1].best_match = results[1].string
    /\ ~results[2].is_parent /\ results[2].is_matched /\ ~results[2].is_added
    /\ render_class(results[2]) = "is-changed"
    /\ results[2].best_match = strip(Neighbor65002)
    /\ results[2].similarity_score =
         PrefixWeight * ((3 * Unit) \div 4) + TokenWeight * ((3 * Unit) \div 5)
    /\ 1000 * results[2].similarity_score = 705 * One
    /\ results[2].diff_positions = <<Len(strip(Neighbor65001)) - 1>>

\* The diff of the BGP scenario, with its child record matched.
C17_Witness ==
  /\ Scenario5
  /\ Len(results) = 2
  /\ results[2].is_matched
  /\ results[2].string # results[2].best_match

\* C19 (Fiber optics check): once handle_transceiver_details has handled an
\* output with no parsable transceiver entry, the empty output included,
\* the status is FAIL (2) with the 'No transceiver information detected'
\* observation; the status is PASS (1) only when at least one entry was
\* parsed and every value of every entry is within its thresholds.
C19_NoTransceiver ==
  (check = "FiberOpticsL1" /\ calls = 1) =>
    LET entries == {i \in 1..Len(output) : output[i].kind = "transceiver"} IN
    /\ entries = {} =>
         /\ RESULTS.status = 2
         /\ RESULTS.observation =
              <<"No transceiver information detected in the output.">>
    /\ RESULTS.status = 1 =>
         /\ entries # {}
         /\ \A i \in entries : \A p \in 1..Len(Params) :
              /\ output[i][Params[p]] >= THRESHOLDS[Params[p]][1]
              /\ output[i][Params[p]] <= THRESHOLDS[Params[p]][2]

\* The counter line at i is the one the check reads for its interface: it
\* lies in an interface block and no line of the block before it carries the
\* same counter.
IsParsedCounter(out, i) ==
  /\ out[i].kind = "counter"
  /\ \E h \in 1..(i - 1) :
       /\ out[h].kind = "interface"
       /\ \A j \in (h + 1)..(i - 1) :
            /\ out[j].kind # "interface"
            /\ out[j].kind = "counter" => out[j].counter # out[i].counter

\* C20: interface errors check: an empty output ends with status ERROR (5);
\* PASS (1) is set only when output was received and every parsed counter is
\* zero; when the call returns, FAIL (2) is set exactly when some parsed
\* counter is not zero.
C20_InterfaceErrors ==
  (check = "InterfaceErrorCheck" /\ calls = 1) =>
    LET nonzero == \E i \in 1..Len(output) :
                     /\ IsParsedCounter(output, i)
                     /\ ~int_raises(output[i].numeral)
                     /\ output[i].numeral.value > 0 IN
    /\ output = <<>> => RESULTS.status = 5
    /\ RESULTS.status = 1 => (output # <<>> /\ ~nonzero)
    /\ raised = "" => (RESULTS.status = 2 <=> nonzero)

\* REQUESTS names one command and one handler.
NamesRequest(req) ==
  /\ Cardinality({r \in req : r[1] = "command"}) = 1
  /\ Cardinality({r \in req : r[1] = "handler"}) = 1

\* C18: check protocol, for every check class: at construction REQUESTS
\* names one command and one handler and the status is 0; after a handler
\* call with any output the call has returned, and either REQUESTS is empty
\* and the status is final (not 0), or REQUESTS names a further command and
\* handler and the status is still 0; REQUESTS is empty after at most two
\* handler calls.
C18_CheckProtocol ==
  /\ calls = 0 => (NamesRequest(REQUESTS) /\ RESULTS.status = 0)
  /\ calls > 0 =>
       /\ raised = ""
       /\ \/ REQUESTS = NoRequests /\ RESULTS.status # 0
          \/ /\ NamesRequest(REQUESTS)
             /\ REQUESTS # first_request(check)
             /\ RESULTS.status = 0
  /\ calls <= 2
  /\ calls = 2 => REQUESTS = NoRequests

CdpCheck == check = "CDPInterfaceDescriptionComplianceCheck"

\* The description the output gives an interface: that of the last line of
\* the interface, the empty text without one.
DescriptionOf(out, intf) ==
  LET at == {i \in 1..Len(out) : out[i].kind = "desc" /\ out[i].intf = intf} IN
  IF at = {} THEN ""
  ELSE out[CHOOSE i \in at : \A j \in at : j <= i].desc

\* C21: the CDP description check is a two-step protocol.  After
\* handle_cdp_neighbors, without a parsed neighbor the check is finished
\* (REQUESTS empty, status 6) and no second command is requested; with one,
\* REQUESTS names 'show interfaces description' with the handler
\* handle_interface_descriptions, the status is still 0, and every neighbor
\* entry is kept under its local interface with the first label of the host
\* name.  After the second handler REQUESTS is empty and the status is 1 if
\* every learned interface has the description
\* <local_interface>_<remote_hostname>_<remote_interface>, 2 otherwise.
C21_CdpTwoStep ==
  CdpCheck =>
    /\ calls = 1 =>
         IF \A i \in 1..Len(output) : output[i].kind # "cdp"
         THEN REQUESTS = NoRequests /\ RESULTS.status = 6 /\ cdp_data = <<>>
         ELSE /\ REQUESTS = {<<"command", "show interfaces description">>,
                             <<"handler", "handle_interface_descriptions">>}
              /\ RESULTS.status = 0
              /\ {cdp_data[k][1] : k \in 1..Len(cdp_data)}
                   = {output[i].local_intf : i \in {j \in 1..Len(output) : output[j].kind = "cdp"}}
              /\ \A k \in 1..Len(cdp_data) :
                   \E i \in 1..Len(output) :
                     /\ output[i].kind = "cdp"
                     /\ output[i].local_intf = cdp_data[k][1]
                     /\ cdp_data[k][2].remote_host = output[i].remote_host[1]
                     /\ cdp_data[k][2].remote_intf = output[i].remote_intf
                     /\ \A j \in (i + 1)..Len(output) :
                          output[j].kind = "cdp" => output[j].local_intf # cdp_data[k][1]
    /\ calls = 2 =>
         /\ cdp_data # <<>>
         /\ REQUESTS = NoRequests
         /\ RESULTS.status \in {1, 2}
         /\ RESULTS.status = 1 <=>
              \A k \in 1..Len(cdp_data) :
                DescriptionOf(output, cdp_data[k][1])
                  = cdp_data[k][1] \o "_" \o cdp_data[k][2].remote_host \o "_" \o cdp_data[k][2].remote_intf

\* Both handlers have run and the check has passed on an output that gives
\* the interface a wrong description first and the expected one after it.
C21_Witness ==
  /\ CdpCheck
  /\ calls = 2
  /\ RESULTS.status = 1
  /\ Len(output) = 2
  /\ output[1].kind = "desc" /\ output[1].desc = "uplink"

\* The lines of the base text.
BaseLines == splitlines(base_cfg)
IsBlankLine(line) == \A i \in 1..Len(line) : line[i] \in Whitespace

\* The positions of the lines that are not blank.
NonBlank(lines) == {i \in 1..Len(lines) : ~IsBlankLine(lines[i])}

\* The k-th non-blank line.
NthLine(lines, k) ==
  CHOOSE i \in NonBlank(lines) : Cardinality({j \in NonBlank(lines) : j <= i}) = k

\* The count of leading spaces of a line.
LeadingSpaces(line) ==
  CHOOSE n \in 0..Len(line) :
    /\ \A i \in 1..n : line[i] = " "
    /\ n < Len(line) => line[n + 1] # " "

\* The text of a line: the line without the white space around it.
TextOf(line) ==
  LET inner == {i \in 1..Len(line) : line[i] \notin Whitespace} IN
  IF inner = {} THEN <<>>
  ELSE SubSeq(line, CHOOSE i \in inner : \A j \in inner : i <= j,
                    CHOOSE i \in inner : \A j \in inner : j <= i)

\* The nearest non-blank line before line i of a smaller indent, 0 without one.
Enclosing(lines, i) ==
  LET above == {j \in NonBlank(lines) : j < i /\ LeadingSpaces(lines[j]) < LeadingSpaces(lines[i])} IN
  IF above = {} THEN 0 ELSE CHOOSE j \in above : \A h \in above : h <= j

\* The lines that enclose line i, outermost first.
RECURSIVE Ancestors(_, _)
Ancestors(lines, i) == IF Enclosing(lines, i) = 0 THEN <<>> ELSE Append(Ancestors(lines, Enclosing(lines, i)), Enclosing(lines, i))

\* C22: parse() gives one record per non-blank line, in source order, with
\* the text of the line; the path of a record is the texts, joined by DELIM,
\* of the lines found by taking again and again the nearest preceding
\* non-blank line of a strictly smaller indent; the indents along a path
\* increase strictly and stay below the line's own; a text in which no line
\* is indented has only records of the empty path.
C22_PathDerivation ==
  Compared =>
    LET lines == BaseLines IN
    /\ Len(base_parsed) = Cardinality(NonBlank(lines))
    /\ \A k \in 1..Len(base_parsed) :
         LET i == NthLine(lines, k)
             anc == Ancestors(lines, i)
         IN
         /\ base_parsed[k].string = TextOf(lines[i])
         /\ base_parsed[k].path = join([a \in 1..Len(anc) |-> TextOf(lines[anc[a]])], DELIM)
         /\ \A a \in 1..Len(anc) :
              /\ LeadingSpaces(lines[anc[a]]) < LeadingSpaces(lines[i])
              /\ a > 1 => LeadingSpaces(lines[anc[a - 1]]) < LeadingSpaces(lines[anc[a]])
    /\ (\A i \in NonBlank(lines) : LeadingSpaces(lines[i]) = 0) =>
         \A k \in 1..Len(base_parsed) : base_parsed[k].path = <<>>

\* A parsed text with a blank line between a header and a line two scopes
\* under it, whose path has two segments.
C22_Witness ==
  /\ Compared
  /\ \E i \in 1..Len(BaseLines) :
       IsBlankLine(BaseLines[i]) /\ \E j \in NonBlank(BaseLines) : j < i
  /\ \E k \in 1..Len(base_parsed) : Len(Ancestors(BaseLines, NthLine(BaseLines, k))) = 2

\* The first non-blank line after line i, 0 without one.
Following(lines, i) ==
  LET later == {j \in NonBlank(lines) : j > i} IN
  IF later = {} THEN 0 ELSE CHOOSE j \in later : \A h \in later : j <= h

\* C23: a record is a parent exactly when a later non-blank line exists and
\* the first of them has a strictly greater indent than the record's line;
\* the blank lines between the two are skipped, and the last non-blank line
\* of a text is never a parent.
C23_ParentLookahead ==
  Compared =>
    LET lines == BaseLines IN
    \A k \in 1..Len(base_parsed) :
      LET i == NthLine(lines, k)
          next == Following(lines, i)
      IN
      /\ base_parsed[k].is_parent <=>
           /\ next # 0
           /\ LeadingSpaces(lines[next]) > LeadingSpaces(lines[i])
      /\ k = Len(base_parsed) => ~base_parsed[k].is_parent

\* A parent whose first child comes after a blank line.
C23_Witness ==
  /\ Compared
  /\ \E k \in 1..Len(base_parsed) :
       /\ base_parsed[k].is_parent
       /\ Following(BaseLines, NthLine(BaseLines, k)) > NthLine(BaseLines, k) + 1

\* The path of the lines under a record: its own path followed by its text.
PathUnder(rec) == IF rec.path = <<>> THEN rec.string ELSE rec.path \o <<DELIM>> \o rec.string

\* C30: in the output of parse(), record k is a parent exactly when record
\* k+1 exists and its path is the path of record k followed by the text of
\* record k; and the last segment of a non-empty path is the text of an
\* earlier parent record whose own path is the rest of that path.
C30_ParentPathConsistency ==
  Compared =>
    \A k \in 1..Len(base_parsed) :
      /\ base_parsed[k].is_parent <=>
           /\ k < Len(base_parsed)
           /\ base_parsed[k + 1].path = PathUnder(base_parsed[k])
      /\ base_parsed[k].path # <<>> =>
           \E j \in 1..(k - 1) :
             /\ base_parsed[j].is_parent
             /\ base_parsed[k].path = PathUnder(base_parsed[j])

\* A parsed text with a parent under a parent, followed by a line that
\* returns to an outer scope.
C30_Witness ==
  /\ Compared
  /\ \E k \in 2..(Len(base_parsed) - 1) :
       /\ base_parsed[k].is_parent
       /\ base_parsed[k].path # <<>>
       /\ base_parsed[k + 1].path = PathUnder(base_parsed[k])
  /\ \E k \in 1..(Len(base_parsed) - 1) :
       /\ ~base_parsed[k].is_parent
       /\ Len(base_parsed[k + 1].path) < Len(base_parsed[k].path)

\* The length of the common prefix of two token lists.
CommonPrefix(s, t) ==
  SetMax({n \in 0..Min2(Len(s), Len(t)) : \A i \in 1..n : s[i] = t[i]})

\* The score of two texts as the specification states it, in the units of
\* the model's scores.
StatedScore(a, b) ==
  LET s == split(a)
      t == split(b)
  IN IF s[1] # t[1] \/ Abs(Len(s) - Len(t)) > 4 THEN 0
     ELSE 7 * ((Unit * CommonPrefix(s, t)) \div Max2(Len(s), Len(t)))
          + 3 * ((Unit * Cardinality(SeqToSet(s) \cap SeqToSet(t)))
                 \div Cardinality(SeqToSet(s) \cup SeqToSet(t)))

\* C24: the score of two lines is 0.0 when their first tokens differ or
\* their token counts differ by more than 4, and otherwise
\* 0.7 * (common token prefix / longer token count) + 0.3 * Jaccard; the
\* score a non-parent base record stores is the best such score over its
\* pool, and a matched one pairs two lines of the same first token whose
\* token counts differ by at most 4.
C24_FastRejects ==
  Compared =>
    \A k \in BaseKeys :
      ~results[k].is_parent =>
        /\ results[k].similarity_score =
             IF Pool(k) = {} THEN NoCandidate
             ELSE SetMax({StatedScore(results[k].string, target_parsed[j].string) : j \in Pool(k)})
        /\ results[k].is_matched =>
             /\ results[k].similarity_score = StatedScore(results[k].string, results[k].best_match)
             /\ split(results[k].string)[1] = split(results[k].best_match)[1]
             /\ Abs(Len(split(results[k].string)) - Len(split(results[k].best_match))) <= 4

\* A line matched across a token-count difference of exactly 4, beside a
\* line whose only candidate has the same first token and 5 tokens more,
\* and scores 0.0.
C24_Witness ==
  /\ Compared
  /\ \E k \in BaseKeys :
       /\ results[k].is_matched
       /\ Abs(Len(split(results[k].string)) - Len(split(results[k].best_match))) = 4
  /\ \E k \in BaseKeys, j \in 1..Len(target_parsed) :
       /\ Pool(k) = {j}
       /\ results[k].similarity_score = 0
       /\ split(results[k].string)[1] = split(target_parsed[j].string)[1]
       /\ Abs(Len(split(results[k].string)) - Len(split(target_parsed[j].string))) = 5

\* The members of a set of numbers in increasing order.
RECURSIVE Increasing(_)
Increasing(S) == IF S = {} THEN <<>> ELSE <<SetMin(S)>> \o Increasing(S \ {SetMin(S)})

\* The positions, counted from 0, at which texts a and b differ: those both
\* have and hold different characters, and those only the longer one has.
DiffSpan(a, b) ==
  {i \in 0..(Min2(Len(a), Len(b)) - 1) : a[i + 1] # b[i + 1]}
  \cup Min2(Len(a), Len(b))..(Max2(Len(a), Len(b)) - 1)

\* The diff span definition, for every record.
SpanDefinition ==
  \A k \in DOMAIN results :
    /\ results[k].is_matched =>
         /\ results[k].diff_positions = Increasing(DiffSpan(results[k].string, results[k].best_match))
         /\ results[k].diff_positions = <<>> <=> results[k].string = results[k].best_match
    /\ ~results[k].is_matched =>
         results[k].diff_positions = Increasing(0..(Len(results[k].string) - 1))

\* Scenario 2: "description foo" under "interface Eth1/1" in the base,
\* "description bar" under the same header in the target.
Scenario2 ==
  /\ Compared
  /\ base_cfg = join(<<InterfaceEth, DescriptionFoo>>, NL)
  /\ target_cfg = join(<<InterfaceEth, DescriptionBar>>, NL)

\* C25 as claimed: the diff span definition, and in Scenario 2 the span of
\* the description line is {12, 13, 14}.
C25_DiffSpan_Claimed ==
  /\ SpanDefinition
  /\ Scenario2 => results[2].diff_positions = <<12, 13, 14>>

\* C25 (Diff span definition): diff_positions of a matched record is, in
\* increasing order, every position below the shorter length at which text
\* and best_match differ and every position from the shorter to the longer
\* length, so it is empty iff the two are equal; that of an unmatched
\* record, removed or added, is every position of its text.  In Scenario 2
\* the two description lines score 0.7 * 1/2 + 0.3 * 1/3 = 0.45 and are not
\* matched: "description foo" is removed, "description bar" is added, and
\* the span of each is all of its 15 positions.
C25_DiffSpan ==
  /\ SpanDefinition
  /\ Scenario2 =>
       /\ Len(results) = 3
       /\ results[1].is_matched /\ results[1].diff_positions = <<>>
       /\ results[2].string = strip(DescriptionFoo)
       /\ ~results[2].is_matched /\ ~results[2].is_added
       /\ 100 * results[2].similarity_score = 45 * One
       /\ results[2].diff_positions = [i \in 1..15 |-> i - 1]
       /\ results[3].string = strip(DescriptionBar)
       /\ results[3].is_added
       /\ results[3].diff_positions = [i \in 1..15 |-> i - 1]

\* Scenario 2 compared.
C25_Witness == Scenario2 /\ Len(results) = 3

\* The records of the header lines that open the path of a node: a base
\* line or a target line that is a parent and whose path and text make up
\* the key path of the node.
Headers(node) ==
  IF node = <<>> THEN {}
  ELSE {k \in DOMAIN results :
          /\ results[k].path = join(SubSeq(node, 1, Len(node) - 1), DELIM)
          /\ \/ /\ k <= Len(base_parsed)
                /\ base_parsed[k].is_parent
                /\ base_parsed[k].string = node[Len(node)]
             \/ /\ source[k] # 0
                /\ target_parsed[source[k]].is_parent
                /\ target_parsed[source[k]].string = node[Len(node)]}

SectionState(node) == _get_section_state(path_scores, results, tree[node].root_items)

\* C26 (Section aggregate state): a node without direct records has no
\* state; a node with direct records has the state removed exactly when the
\* header line that opened its path is a removed record, added exactly when
\* it is an added record, and no state when the header was matched, also
\* when the header text occurs on several lines at that path of which one
\* is matched.
C26_SectionState ==
  pc = "built" =>
    \A node \in DOMAIN tree :
      IF tree[node].root_items = <<>> THEN SectionState(node) = ""
      ELSE SectionState(node) =
             IF \E h \in Headers(node) : results[h].is_matched THEN ""
             ELSE IF \E h \in Headers(node) : IsRemoved(results[h]) THEN "removed"
             ELSE IF \E h \in Headers(node) : results[h].is_added THEN "added"
             ELSE ""

\* C27 (No parent line is matched by similarity): in a matched record whose
\* base line or whose consumed target line is a parent, text and best_match
\* are identical; a target parent header is never consumed by a base line of
\* another text.
C27_NoParentBySimilarity ==
  Compared =>
    \A k \in BaseKeys :
      (results[k].is_matched
         /\ (base_parsed[k].is_parent \/ target_parsed[source[k]].is_parent)) =>
        results[k].string = target_parsed[source[k]].string

\* C28 (Built structures are repeatable): after compare() and render(), a
\* further render() on the same renderer or compare() on the same differ
\* leaves the results, the record list of every tree node and the counts
\* per disposition of the page as the call before left them, and no record
\* is listed twice.
C28_Repeatable ==
  (pc = "built" /\ run > 1) =>
    /\ results = prev.results
    /\ DOMAIN tree = DOMAIN prev.tree
    /\ \A node \in DOMAIN tree \cap DOMAIN prev.tree :
         tree[node].root_items = prev.tree[node].root_items
    /\ \A k \in DOMAIN results : Cardinality(Places(k)) <= 1
    /\ page_stats(results, tree) = page_stats(prev.results, prev.tree)

\* The lines of a parsed text that have the path and the text of line k of
\* the base.
SameLine(parsed, k) ==
  {j \in 1..Len(parsed) :
     /\ parsed[j].path = base_parsed[k].path
     /\ parsed[j].string = base_parsed[k].string}

\* C29 (Exact lines are never lost to greedy matching): a base line that is
\* not a parent, and whose text occurs at its path in the target at least as
\* often as in the base, has a matched record whose best_match is its text.
C29_ExactNeverLost ==
  Compared =>
    \A k \in BaseKeys :
      (~base_parsed[k].is_parent
         /\ Cardinality(SameLine(target_parsed, k)) >= Cardinality(SameLine(base_parsed, k))) =>
        /\ results[k].is_matched
        /\ results[k].best_match = results[k].string

====
